---------------------------- MODULE Spec2Model ----------------------------
(***************************************************************************)
(* A model of source/primordial.c (primordial spectrum module) and of the  *)
(* routines it drives.                                                     *)
(*                                                                         *)
(* Numbers.  The code works on doubles.  The model keeps the arithmetic    *)
(* exact by working on a logarithmic grid of base b, where b^Ln10 = 10:    *)
(*   - a logarithm (ln k, ln P) is an integer, in units of ln b;           *)
(*   - a wavenumber, an amplitude, a power or a correlation angle is a     *)
(*     record of kind "pow": s * b^e, s the sign;                          *)
(*   - log() takes a "pow" to a "lin" (the integer e), exp() takes a "lin" *)
(*     to a "pow"; products and quotients add and subtract exponents;      *)
(*   - tilts and runnings are kept doubled (tilt2 = 2*tilt), so that the   *)
(*     0.5*(t1+t2) of the cross terms stays an integer.                    *)
(* Wavenumbers and amplitudes are even powers of b, which keeps every      *)
(* square root the code takes of P_ii*P_jj exact.                          *)
(***************************************************************************)
EXTENDS Integers, Sequences, FiniteSets, TLC

(***************************************************************************)
(* Bounds of the model and program constants                               *)
(***************************************************************************)

\* log(10.) in units of ln b (primordial_get_lnk_list, primordial_init)
Ln10 == 8

\* largest k_max/k_min, in half decades
MaxHalfDecades == 3

\* _K_PER_DECADE_PRIMORDIAL_MIN_ (include/primordial.h)
K_PER_DECADE_PRIMORDIAL_MIN == 1

\* largest number of lines read from the external command
MaxLines == 4

\* n_data_guess = 100: the initial capacity of the buffers k, pks, pkt
n_data_guess_initial == 100

_SUCCESS_ == "success"
_FAILURE_ == "failure"

(***************************************************************************)
(* Exact arithmetic on the logarithmic grid                                *)
(***************************************************************************)

Sgn(n) == IF n > 0 THEN 1 ELSE IF n < 0 THEN -1 ELSE 0

Abs(n) == IF n < 0 THEN -n ELSE n

\* the double 0.
Zero == [kind |-> "zero", s |-> 0, e |-> 0, d |-> 1]

\* a double that is not a finite number (sqrt or log of a negative, x/0.)
NaN == [kind |-> "nan", s |-> 0, e |-> 0, d |-> 1]

\* an allocated but never written double
Uninit == [kind |-> "uninit", s |-> 0, e |-> 0, d |-> 1]

\* a value the model does not compute: what the spline returns between knots
Opaque == [kind |-> "opaque", s |-> 0, e |-> 0, d |-> 1]

\* the double s * b^e
Pow(s, e) == IF s = 0 THEN Zero ELSE [kind |-> "pow", s |-> s, e |-> e, d |-> 1]

\* the double n (a pure number or a logarithm); 1 and -1 are b^0 and -b^0
Lin(n) ==
  IF n = 0 THEN Zero
  ELSE IF Abs(n) = 1 THEN Pow(n, 0)
  ELSE [kind |-> "lin", s |-> Sgn(n), e |-> n, d |-> 1]

\* the double s * b^e / sqrt(d), d > 1
Quot(s, e, d) == IF d = 1 THEN Pow(s, e) ELSE [kind |-> "quot", s |-> s, e |-> e, d |-> d]

\* the double sqrt(d), d > 1 not a perfect square
Surd(d) == [kind |-> "surd", s |-> 1, e |-> 0, d |-> d]

IsPlain(x) == x.kind \in {"pow", "zero"}

\* an integer-valued double as an integer: 0, 1, -1 or a "lin"
IsInt(x) == x.kind \in {"zero", "lin"} \/ (x.kind = "pow" /\ x.e = 0)

IntOf(x) == IF x.kind = "lin" THEN x.e ELSE x.s

RECURSIVE ISqrtFrom(_, _)
ISqrtFrom(n, r) == IF (r + 1) * (r + 1) > n THEN r ELSE ISqrtFrom(n, r + 1)

\* floor of the square root of n >= 0
ISqrt(n) == ISqrtFrom(n, 0)

\* log(x) of math.h
Log(x) ==
  CASE x.kind = "pow" /\ x.s = 1 -> Lin(x.e)
    [] x.kind = "opaque" -> Opaque
    [] OTHER -> NaN

\* exp(x) of math.h
Exp(x) ==
  CASE IsInt(x) -> Pow(1, IntOf(x))
    [] x.kind = "opaque" -> Opaque
    [] OTHER -> NaN

\* x * y
Mul(x, y) ==
  CASE x.kind = "nan" \/ y.kind = "nan" -> NaN
    [] x.kind = "opaque" \/ y.kind = "opaque" -> Opaque
    [] x.kind = "zero" \/ y.kind = "zero" -> Zero
    [] x.kind = "pow" /\ y.kind = "pow" -> Pow(x.s * y.s, x.e + y.e)
    [] IsInt(x) /\ IsInt(y) -> Lin(IntOf(x) * IntOf(y))
    [] OTHER -> Opaque

\* sqrt(x) of math.h
Sqrt(x) ==
  CASE x.kind = "zero" -> Zero
    [] x.kind = "pow" /\ x.s = 1 /\ x.e % 2 = 0 -> Pow(1, x.e \div 2)
    [] x.kind = "lin" /\ x.s = 1 ->
         IF ISqrt(x.e) * ISqrt(x.e) = x.e THEN Lin(ISqrt(x.e)) ELSE Surd(x.e)
    [] x.kind = "opaque" -> Opaque
    [] x.kind = "pow" /\ x.s = 1 -> Opaque
    [] OTHER -> NaN

\* x / y
Div(x, y) ==
  CASE x.kind = "nan" \/ y.kind \in {"nan", "zero"} -> NaN
    [] x.kind = "opaque" \/ y.kind = "opaque" -> Opaque
    [] x.kind = "zero" -> Zero
    [] x.kind = "pow" /\ y.kind = "pow" -> Pow(x.s * y.s, x.e - y.e)
    [] x.kind = "pow" /\ y.kind = "lin" -> Quot(x.s * y.s, x.e, y.e * y.e)
    [] x.kind = "pow" /\ y.kind = "surd" -> Quot(x.s, x.e, y.d)
    [] OTHER -> Opaque

\* x + y on integer-valued doubles
Add(x, y) ==
  CASE x.kind = "nan" \/ y.kind = "nan" -> NaN
    [] IsInt(x) /\ IsInt(y) -> Lin(IntOf(x) + IntOf(y))
    [] OTHER -> Opaque

\* x / n for an integer n > 0, where the quotient is an integer
Ratio(x, n) ==
  CASE x.kind = "nan" -> NaN
    [] IsInt(x) /\ IntOf(x) % n = 0 -> Lin(IntOf(x) \div n)
    [] OTHER -> Opaque

\* -x
Neg(x) ==
  CASE x.kind = "pow" -> Pow(-x.s, x.e)
    [] x.kind = "lin" -> Lin(-x.e)
    [] OTHER -> x

\* x > y, on two signed powers of b (or 0.) or on two integer-valued doubles;
\* false when an operand is a NaN, as in C
Gt(x, y) ==
  IF IsPlain(x) /\ IsPlain(y)
  THEN \/ x.s > y.s
       \/ x.s = 1 /\ y.s = 1 /\ x.e > y.e
       \/ x.s = -1 /\ y.s = -1 /\ x.e < y.e
  ELSE IsInt(x) /\ IsInt(y) /\ IntOf(x) > IntOf(y)

\* x < y
Lt(x, y) == Gt(y, x)

\* x <= y and x >= y: false when an operand is a NaN
Le(x, y) == Lt(x, y) \/ (x = y /\ x.kind # "nan")

Ge(x, y) == Le(y, x)

\* the exponent of a positive power of b: ln(x) in units of ln b
LnOf(x) == x.e

\* Exact fractions n/d, d > 0; d = 0 is what a division by 0. gives

Fraction(n, d) == [n |-> n, d |-> d]

frac_add(x, y) == Fraction(x.n * y.d + y.n * x.d, x.d * y.d)

frac_sub(x, y) == Fraction(x.n * y.d - y.n * x.d, x.d * y.d)

frac_mul(x, y) == Fraction(x.n * y.n, x.d * y.d)

frac_div(x, y) == Fraction(Sgn(y.n) * x.n * y.d, x.d * Abs(y.n))

\* x == y, false when one of them is not a number
frac_eq(x, y) == x.d # 0 /\ y.d # 0 /\ x.n * y.d = y.n * x.d

(***************************************************************************)
(* index_symmetric_matrix (include/common.h)                               *)
(***************************************************************************)

index_symmetric_matrix(i1, i2, N) ==
  IF i1 <= i2 THEN i2 + N * i1 - (i1 * (i1 + 1)) \div 2
  ELSE i1 + N * i2 - (i2 * (i2 + 1)) \div 2

(***************************************************************************)
(* The perturbation structure ppt, as far as this module reads it          *)
(***************************************************************************)

\* ppt->md_size: scalar and tensor modes (vector modes are not modelled)
ppt_md_size(t) ==
  (IF t.has_scalars THEN 1 ELSE 0) + (IF t.has_tensors THEN 1 ELSE 0)

ppt_index_md_scalars == 0

ppt_index_md_tensors(t) == IF t.has_scalars THEN 1 ELSE 0

\* the macros _scalars_ and _tensors_ of include/perturbations.h
is_scalars(t, index_md) == t.has_scalars /\ index_md = ppt_index_md_scalars

is_tensors(t, index_md) == t.has_tensors /\ index_md = ppt_index_md_tensors(t)

\* initial conditions: adiabatic (index 0) and, optionally, CDM isocurvature
ppt_index_ic_ad == 0

ppt_index_ic_cdi == 1

ppt_index_ic_ten == 0

ppt_ic_size(t, index_md) ==
  IF is_scalars(t, index_md) THEN (IF t.has_cdi THEN 2 ELSE 1) ELSE 1

(***************************************************************************)
(* primordial_indices and primordial_get_lnk_list                          *)
(***************************************************************************)

ic_ic_size_short(ic_size) == (ic_size * (ic_size - 1)) \div 2

\* ic_ic_size[index_md] = (ic_size[index_md]*(ic_size[index_md]+1))/2
ic_ic_size_of(ic_size) == (ic_size * (ic_size + 1)) \div 2

\* the sizes primordial_indices sets: md_size, ic_size[], ic_ic_size[]
primordial_indices(t) ==
  [md_size |-> ppt_md_size(t),
   ic_size |-> [index_md \in 0 .. ppt_md_size(t) - 1 |-> ppt_ic_size(t, index_md)],
   ic_ic_size |-> [index_md \in 0 .. ppt_md_size(t) - 1 |->
                     ic_ic_size_of(ppt_ic_size(t, index_md))]]

\* lnk_size = (int)(log(kmax/kmin)/log(10.)*k_per_decade) + 2
lnk_size_of(kmin, kmax, k_per_decade) ==
  ((LnOf(kmax) - LnOf(kmin)) * k_per_decade) \div Ln10 + 2

\* lnk[i] = log(kmin) + i*log(10.)/k_per_decade
lnk_entry(kmin, k_per_decade, i) == LnOf(kmin) + (i * Ln10) \div k_per_decade

primordial_get_lnk_list(kmin, kmax, k_per_decade) ==
  IF Le(kmin, Zero) \/ Le(kmax, kmin)
  THEN [status |-> _FAILURE_, lnk_size |-> 0, lnk |-> <<>>]
  ELSE [status |-> _SUCCESS_,
        lnk_size |-> lnk_size_of(kmin, kmax, k_per_decade),
        lnk |-> [i \in 0 .. lnk_size_of(kmin, kmax, k_per_decade) - 1 |->
                   Lin(lnk_entry(kmin, k_per_decade, i))]]

(***************************************************************************)
(* primordial_analytic_spectrum_init and primordial_analytic_spectrum      *)
(***************************************************************************)

\* (amplitude, 2*tilt, 2*running) of the diagonal entry of one initial condition
one_diagonal(t, p, index_md, index_ic1) ==
  IF is_scalars(t, index_md)
  THEN IF index_ic1 = ppt_index_ic_ad
       THEN [amplitude |-> p.A_s, tilt2 |-> 2 * IntOf(p.n_s),
             running2 |-> 2 * IntOf(p.alpha_s)]
       ELSE [amplitude |-> Mul(Mul(p.A_s, p.f_cdi), p.f_cdi),
             tilt2 |-> 2 * IntOf(p.n_cdi), running2 |-> 2 * IntOf(p.alpha_cdi)]
  ELSE [amplitude |-> Mul(p.A_s, p.r), tilt2 |-> 2 * (IntOf(p.n_t) + 1),
        running2 |-> 2 * IntOf(p.alpha_t)]

\* the class_test's of primordial_analytic_spectrum_init
analytic_init_fails(t, p) ==
  \/ \E index_md \in 0 .. ppt_md_size(t) - 1 :
       \E index_ic1 \in 0 .. ppt_ic_size(t, index_md) - 1 :
         Le(one_diagonal(t, p, index_md, index_ic1).amplitude, Zero)
  \/ /\ t.has_scalars /\ t.has_cdi
     /\ Lt(p.c_ad_cdi, Pow(-1, 0)) \/ Gt(p.c_ad_cdi, Pow(1, 0))

\* the coefficients of a pair without the cross tilt and the cross running
analytic_coefficient_averaged(t, p, index_md, index_ic1, index_ic2) ==
  LET d1 == one_diagonal(t, p, index_md, index_ic1)
      d2 == one_diagonal(t, p, index_md, index_ic2)
  IN  IF index_ic1 = index_ic2
      THEN [is_non_zero |-> TRUE, amplitude |-> d1.amplitude,
            tilt2 |-> d1.tilt2, running2 |-> d1.running2]
      ELSE IF p.c_ad_cdi = Zero
      THEN [is_non_zero |-> FALSE, amplitude |-> Zero, tilt2 |-> 0, running2 |-> 0]
      ELSE [is_non_zero |-> TRUE,
            amplitude |-> Mul(Sqrt(Mul(d1.amplitude, d2.amplitude)), p.c_ad_cdi),
            tilt2 |-> (d1.tilt2 + d2.tilt2) \div 2,
            running2 |-> (d1.running2 + d2.running2) \div 2]

\* the three coefficients of pair (index_ic1, index_ic2) and its is_non_zero
analytic_coefficient(t, p, index_md, index_ic1, index_ic2) ==
  LET d1 == one_diagonal(t, p, index_md, index_ic1)
      d2 == one_diagonal(t, p, index_md, index_ic2)
  IN  IF index_ic1 = index_ic2
      THEN [is_non_zero |-> TRUE, amplitude |-> d1.amplitude,
            tilt2 |-> d1.tilt2, running2 |-> d1.running2]
      ELSE IF p.c_ad_cdi = Zero
      THEN [is_non_zero |-> FALSE, amplitude |-> Zero, tilt2 |-> 0, running2 |-> 0]
      ELSE [is_non_zero |-> TRUE,
            amplitude |-> Mul(Sqrt(Mul(d1.amplitude, d2.amplitude)), p.c_ad_cdi),
            tilt2 |-> (d1.tilt2 + d2.tilt2) \div 2 + 2 * IntOf(p.n_ad_cdi),
            running2 |-> (d1.running2 + d2.running2) \div 2 + 2 * IntOf(p.alpha_ad_cdi)]

\* the pair (index_ic1, index_ic2), index_ic1 <= index_ic2, stored at an offset
pair_of(N, index_ic1_ic2) ==
  CHOOSE q \in (0 .. N - 1) \X (0 .. N - 1) :
    q[1] <= q[2] /\ index_symmetric_matrix(q[1], q[2], N) = index_ic1_ic2

\* ppm->is_non_zero, amplitude, tilt, running after a successful
\* primordial_analytic_spectrum_init, as [index_md][index_ic1_ic2]
primordial_analytic_spectrum_init(t, p) ==
  LET ix == primordial_indices(t)
  IN  [index_md \in 0 .. ix.md_size - 1 |->
        [index_ic1_ic2 \in 0 .. ix.ic_ic_size[index_md] - 1 |->
           LET q == pair_of(ix.ic_size[index_md], index_ic1_ic2)
           IN  analytic_coefficient(t, p, index_md, q[1], q[2])]]

\* primordial_analytic_spectrum: *pk for wavenumber k (a power of b)
primordial_analytic_spectrum(p, index_md, index_ic1_ic2, k) ==
  LET c == p.coef[index_md][index_ic1_ic2]
      L == LnOf(k) - LnOf(p.k_pivot)
  IN  IF p.is_non_zero[index_md][index_ic1_ic2] = TRUE
      THEN Mul(c.amplitude,
               Exp(Lin(((c.tilt2 - 2) * L) \div 2 + (c.running2 * L * L) \div 4)))
      ELSE Zero

(***************************************************************************)
(* State                                                                   *)
(***************************************************************************)

VARIABLES
  ppt,    \* struct perturbs: what the module reads of it
  ppr,    \* struct precision: k_per_decade_primordial
  ppm,    \* struct primordial: input parameters and the tables
  heap,   \* each heap array: "unallocated", "allocated", "freed", "double_freed"
  pc,     \* where the run is: "config", "ext_read", "ready", "failed", "freed"
  ret,    \* what the last routine called returned
  ext,    \* locals of primordial_external_spectrum_init
  call,   \* the last primordial_spectrum_at_k call: arguments, path and output
  sim     \* the routine of the inflation simulator being run, and its locals

vars == <<ppt, ppr, ppm, heap, pc, ret, ext, call, sim>>

\* the state of the primordial module, which the inflation simulator run on
\* its own leaves alone
module_vars == <<ppt, ppr, heap, pc, ret, ext, call>>

\* the arrays of the table, allocated by primordial_get_lnk_list and primordial_indices
TableArrays == {"lnk", "lnpk", "ddlnpk", "is_non_zero", "ic_size", "ic_ic_size"}

\* the arrays primordial_analytic_spectrum_init allocates
AnalyticArrays == {"amplitude", "tilt", "running"}

\* the local buffers of primordial_external_spectrum_init
ExternalArrays == {"k", "pks", "pkt"}

HeapArrays == TableArrays \cup AnalyticArrays \cup ExternalArrays \cup {"command"}

\* malloc of the arrays in names
Alloc(h, names) == [a \in HeapArrays |-> IF a \in names THEN "allocated" ELSE h[a]]

\* free() of the arrays in names
Free(h, names) ==
  [a \in HeapArrays |->
     IF a \notin names THEN h[a]
     ELSE IF h[a] = "allocated" THEN "freed"
     ELSE IF h[a] = "unallocated" THEN "invalid_free"
     ELSE "double_freed"]

(***************************************************************************)
(* primordial_free                                                         *)
(***************************************************************************)

\* the heap after primordial_free(ppm)
primordial_free(p, h) ==
  IF p.lnk_size > 0
  THEN Free(h, TableArrays
                \cup (IF p.primordial_spec_type = "analytic_Pk" THEN AnalyticArrays
                      ELSE IF p.primordial_spec_type = "external_Pk" THEN {"command"}
                      ELSE {}))
  ELSE h

(***************************************************************************)
(* primordial_spectrum_at_k                                                *)
(***************************************************************************)

\* the offsets of the diagonal pairs of mode index_md
IsDiagonal(p, index_md, index_ic1_ic2) ==
  \E index_ic1 \in 0 .. p.ic_size[index_md] - 1 :
    index_ic1_ic2 = index_symmetric_matrix(index_ic1, index_ic1, p.ic_size[index_md])

\* the offsets of the two diagonal pairs (ic1,ic1), (ic2,ic2) of the pair at an offset
diag1(p, index_md, index_ic1_ic2) ==
  LET N == p.ic_size[index_md]
  IN  index_symmetric_matrix(pair_of(N, index_ic1_ic2)[1], pair_of(N, index_ic1_ic2)[1], N)

diag2(p, index_md, index_ic1_ic2) ==
  LET N == p.ic_size[index_md]
  IN  index_symmetric_matrix(pair_of(N, index_ic1_ic2)[2], pair_of(N, index_ic1_ic2)[2], N)

\* ln(k) inferred from the input: log(input) in linear mode, input otherwise
lnk_of_input(mode, input) == IF mode = "linear" THEN Log(input) ELSE input

\* a range test that would take the two ends of the table for outside
out_of_range_excluding_ends(p, lnk) ==
  Ge(lnk, p.lnk[p.lnk_size - 1]) \/ Le(lnk, p.lnk[0])

\* the range test: (lnk > ppm->lnk[ppm->lnk_size-1]) || (lnk < ppm->lnk[0])
out_of_range(p, lnk) == Gt(lnk, p.lnk[p.lnk_size - 1]) \/ Lt(lnk, p.lnk[0])

\* what the range test can answer: with an empty table it reads lnk[-1] and
\* lnk[0], outside of the array
range_test(p, lnk) == IF p.lnk_size > 0 THEN {out_of_range(p, lnk)} ELSE BOOLEAN

\* direct computation, first loop: P(k) of every pair, 0. for an uncorrelated pair
direct_computation(p, index_md, lnk) ==
  [index_ic1_ic2 \in 0 .. p.ic_ic_size[index_md] - 1 |->
     IF p.is_non_zero[index_md][index_ic1_ic2] = TRUE
     THEN primordial_analytic_spectrum(p, index_md, index_ic1_ic2, Exp(lnk))
     ELSE Zero]

\* direct computation in logarithmic mode, the loop over the diagonal:
\* output[ii] = log(output[ii])
direct_log_diagonal(p, index_md, output) ==
  [index_ic1_ic2 \in DOMAIN output |->
     IF IsDiagonal(p, index_md, index_ic1_ic2)
     THEN Log(output[index_ic1_ic2])
     ELSE output[index_ic1_ic2]]

\* direct computation in logarithmic mode, the loop over the non-diagonal pairs,
\* run after the loop over the diagonal: output[ij] /= sqrt(output[ii]*output[jj])
direct_log_cross(p, index_md, output) ==
  [index_ic1_ic2 \in DOMAIN output |->
     IF ~IsDiagonal(p, index_md, index_ic1_ic2)
        /\ p.is_non_zero[index_md][index_ic1_ic2] = TRUE
     THEN Div(output[index_ic1_ic2],
              Sqrt(Mul(output[diag1(p, index_md, index_ic1_ic2)],
                       output[diag2(p, index_md, index_ic1_ic2)])))
     ELSE output[index_ic1_ic2]]

\* array_interpolate_spline (tools/arrays.c): the row of the table at a knot,
\* a value the model does not compute between two knots
array_interpolate_spline(p, index_md, lnk) ==
  [index_ic1_ic2 \in 0 .. p.ic_ic_size[index_md] - 1 |->
     IF lnk.kind # "nan" /\ \E index_k \in 0 .. p.lnk_size - 1 : p.lnk[index_k] = lnk
     THEN LET index_k == CHOOSE i \in 0 .. p.lnk_size - 1 : p.lnk[i] = lnk
          IN  p.lnpk[index_md][index_k * p.ic_ic_size[index_md] + index_ic1_ic2]
     ELSE Opaque]

\* interpolation in linear mode, the loop over the diagonal:
\* output[ii] = exp(output[ii])
table_linear_diagonal(p, index_md, output) ==
  [index_ic1_ic2 \in DOMAIN output |->
     IF IsDiagonal(p, index_md, index_ic1_ic2)
     THEN Exp(output[index_ic1_ic2])
     ELSE output[index_ic1_ic2]]

\* interpolation in linear mode, the loop over the non-diagonal pairs:
\* output[ij] *= sqrt(output[ii]*output[jj]), or 0. for an uncorrelated pair
table_linear_cross(p, index_md, output) ==
  [index_ic1_ic2 \in DOMAIN output |->
     IF IsDiagonal(p, index_md, index_ic1_ic2) THEN output[index_ic1_ic2]
     ELSE IF p.is_non_zero[index_md][index_ic1_ic2] = TRUE
     THEN Mul(output[index_ic1_ic2],
              Sqrt(Mul(output[diag1(p, index_md, index_ic1_ic2)],
                       output[diag2(p, index_md, index_ic1_ic2)])))
     ELSE Zero]

\* primordial_spectrum_at_k: the status, the path taken and output[];
\* outside is the answer of the range test
primordial_spectrum_at_k(p, index_md, mode, input, outside) ==
  LET lnk == lnk_of_input(mode, input)
  IN  IF mode = "linear" /\ Le(input, Zero)
      THEN [status |-> _FAILURE_, path |-> "none", output |-> <<>>]
      ELSE IF outside
      THEN IF p.primordial_spec_type # "analytic_Pk"
           THEN [status |-> _FAILURE_, path |-> "none", output |-> <<>>]
           ELSE [status |-> _SUCCESS_, path |-> "direct",
                 output |->
                   IF mode = "logarithmic"
                   THEN direct_log_cross(p, index_md,
                          direct_log_diagonal(p, index_md,
                            direct_computation(p, index_md, lnk)))
                   ELSE direct_computation(p, index_md, lnk)]
      ELSE [status |-> _SUCCESS_, path |-> "table",
            output |->
              IF mode = "linear"
              THEN table_linear_cross(p, index_md,
                     table_linear_diagonal(p, index_md,
                       array_interpolate_spline(p, index_md, lnk)))
              ELSE array_interpolate_spline(p, index_md, lnk)]

(***************************************************************************)
(* primordial_init                                                         *)
(***************************************************************************)

\* ppm after primordial_get_lnk_list and primordial_indices
table_allocated(t, r, p) ==
  LET g == primordial_get_lnk_list(t.k_min, t.k_max, r.k_per_decade_primordial)
      ix == primordial_indices(t)
  IN  [p EXCEPT !.lnk_size = g.lnk_size, !.lnk = g.lnk, !.md_size = ix.md_size,
                !.ic_size = ix.ic_size, !.ic_ic_size = ix.ic_ic_size]

\* one entry of the table with the correlation angle stored as it comes
analytic_table_entry_as_computed(p, index_md, index_k, index_ic1_ic2) ==
  LET k == Exp(p.lnk[index_k])
      pk == primordial_analytic_spectrum(p, index_md, index_ic1_ic2, k)
      pk1 == primordial_analytic_spectrum(p, index_md, diag1(p, index_md, index_ic1_ic2), k)
      pk2 == primordial_analytic_spectrum(p, index_md, diag2(p, index_md, index_ic1_ic2), k)
  IN  IF p.is_non_zero[index_md][index_ic1_ic2] = TRUE
      THEN IF IsDiagonal(p, index_md, index_ic1_ic2) THEN Log(pk)
           ELSE Div(pk, Sqrt(Mul(pk1, pk2)))
      ELSE Zero

\* one entry of the table of an analytic spectrum: ln P on the diagonal, the
\* correlation angle enforced into [-1,1] elsewhere, 0. for an uncorrelated pair
analytic_table_entry(p, index_md, index_k, index_ic1_ic2) ==
  LET k == Exp(p.lnk[index_k])
      pk == primordial_analytic_spectrum(p, index_md, index_ic1_ic2, k)
      pk1 == primordial_analytic_spectrum(p, index_md, diag1(p, index_md, index_ic1_ic2), k)
      pk2 == primordial_analytic_spectrum(p, index_md, diag2(p, index_md, index_ic1_ic2), k)
  IN  IF p.is_non_zero[index_md][index_ic1_ic2] = TRUE
      THEN IF IsDiagonal(p, index_md, index_ic1_ic2) THEN Log(pk)
           ELSE IF Gt(pk, Sqrt(Mul(pk1, pk2))) THEN Lin(1)
           ELSE IF Lt(pk, Neg(Sqrt(Mul(pk1, pk2)))) THEN Lin(-1)
           ELSE Div(pk, Sqrt(Mul(pk1, pk2)))
      ELSE Zero

\* ppm after the analytic branch: coefficients, is_non_zero and the table lnpk
analytic_branch(t, p) ==
  LET c == primordial_analytic_spectrum_init(t, p)
      q == [p EXCEPT !.coef = c,
                     !.is_non_zero = [index_md \in DOMAIN c |->
                        [index_ic1_ic2 \in DOMAIN c[index_md] |->
                           c[index_md][index_ic1_ic2].is_non_zero]]]
  IN  [q EXCEPT !.lnpk = [index_md \in 0 .. q.md_size - 1 |->
         [j \in 0 .. q.lnk_size * q.ic_ic_size[index_md] - 1 |->
            analytic_table_entry(q, index_md, j \div q.ic_ic_size[index_md],
                                 j % q.ic_ic_size[index_md])]]]

\* ppm after a successful primordial_inflation_solve_inflation: the integration
\* is not modelled here, the spectra it stores are ln P_s = o.lnpk_s and
\* ln P_t = o.lnpk_t at every k
inflation_branch(t, p, o) ==
  [p EXCEPT !.is_non_zero = [index_md \in 0 .. p.md_size - 1 |-> [i \in {0} |-> TRUE]],
            !.lnpk = [index_md \in 0 .. p.md_size - 1 |->
                        [index_k \in 0 .. p.lnk_size - 1 |->
                           IF is_scalars(t, index_md) THEN Lin(o.lnpk_s)
                           ELSE Lin(o.lnpk_t)]]]

\* dlnk = log(10.)/ppr->k_per_decade_primordial
dlnk_of(r) == Ln10 \div r.k_per_decade_primordial

\* the argument of the pivot query number j: log(k_pivot) + j*dlnk
pivot_lnk(r, p, j) == Lin(LnOf(p.k_pivot) + j * dlnk_of(r))

\* the pivot queries of the final block: j in -2..2 for scalars, -1..1 for tensors
pivot_queries(t) ==
  (IF t.has_scalars THEN {<<ppt_index_md_scalars, j>> : j \in -2 .. 2} ELSE {})
    \cup (IF t.has_tensors THEN {<<ppt_index_md_tensors(t), j>> : j \in -1 .. 1} ELSE {})

\* one of the pivot queries returns an error; outside is what the range test
\* answers when the table is empty
pivot_query_fails(t, r, p, outside) ==
  /\ p.primordial_spec_type # "analytic_Pk"
  /\ \E q \in pivot_queries(t) :
       IF p.lnk_size > 0 THEN out_of_range(p, pivot_lnk(r, p, q[2])) ELSE outside

\* ln P of the first pair of mode index_md at the pivot query number j
lnpk_pivot(r, p, index_md, j) ==
  primordial_spectrum_at_k(p, index_md, "logarithmic", pivot_lnk(r, p, j), FALSE).output[0]

\* ppm after the final block: spectral parameters derived from the table
derived_parameters(t, r, p) ==
  LET d == dlnk_of(r)
      s(j) == lnpk_pivot(r, p, ppt_index_md_scalars, j)
      u(j) == lnpk_pivot(r, p, ppt_index_md_tensors(t), j)
      p1 == IF t.has_scalars
            THEN [p EXCEPT
                    !.A_s = Exp(s(0)),
                    !.n_s = Add(Ratio(Add(s(1), Neg(s(-1))), 2 * d), Lin(1)),
                    !.alpha_s = Ratio(Add(Add(s(1), Neg(Add(s(0), s(0)))), s(-1)), d * d),
                    !.beta_s = Ratio(Add(Add(s(2), Neg(Add(s(1), s(1)))),
                                         Add(Add(s(-1), s(-1)), Neg(s(-2)))), d * d * d)]
            ELSE p
  IN  IF p.primordial_spec_type = "analytic_Pk" THEN p
      ELSE IF t.has_tensors
      THEN [p1 EXCEPT
              !.r = Div(Exp(u(0)), p1.A_s),
              !.n_t = Ratio(Add(u(1), Neg(u(-1))), 2 * d),
              !.alpha_t = Ratio(Add(Add(u(1), Neg(Add(u(0), u(0)))), u(-1)), d * d)]
      ELSE p1

(***************************************************************************)
(* Configurations: what the input and perturbation modules hand over       *)
(***************************************************************************)

SpecTypes ==
  {"analytic_Pk", "two_scales", "inflation_V", "inflation_H", "inflation_V_end",
   "external_Pk"}

\* (has_scalars, has_tensors): at least one mode
Modes == {<<TRUE, FALSE>>, <<TRUE, TRUE>>, <<FALSE, TRUE>>}

Ppt(has_scalars, has_tensors, has_cdi, h) ==
  [has_perturbations |-> TRUE, has_scalars |-> has_scalars,
   has_tensors |-> has_tensors, has_cdi |-> has_cdi,
   k_min |-> Pow(1, 0), k_max |-> Pow(1, (Ln10 \div 2) * h)]

Ppr(k_per_decade) == [k_per_decade_primordial |-> k_per_decade]

\* ppm as the input module leaves it: nothing of the table exists yet
Ppm(type) ==
  [primordial_spec_type |-> type, k_pivot |-> Pow(1, Ln10 \div 2),
   A_s |-> Pow(1, -4), n_s |-> Lin(2), alpha_s |-> Zero, beta_s |-> Zero,
   f_cdi |-> Pow(1, 1), n_cdi |-> Lin(1), alpha_cdi |-> Zero,
   c_ad_cdi |-> Zero, n_ad_cdi |-> Zero, alpha_ad_cdi |-> Zero,
   r |-> Pow(1, -2), n_t |-> Zero, alpha_t |-> Zero,
   lnk_size |-> 0, lnk |-> <<>>, md_size |-> 0, ic_size |-> <<>>,
   ic_ic_size |-> <<>>, lnpk |-> <<>>, is_non_zero |-> <<>>, coef |-> <<>>]

\* the correlations ad x cdi tried: none, full, partial, and one out of [-1,1]
Correlations == {Zero, Pow(1, 0), Pow(-1, 0), Pow(1, -1), Pow(-1, -3), Pow(1, 2)}

KPerDecade == {1, 2, 4}

HalfDecades == 1 .. MaxHalfDecades

AnalyticConfigs ==
  {[t |-> Ppt(TRUE, ht, TRUE, h), r |-> Ppr(kpd),
    p |-> [Ppm("analytic_Pk") EXCEPT !.c_ad_cdi = c, !.n_ad_cdi = Lin(n),
                                    !.alpha_ad_cdi = Lin(a)]] :
     ht \in BOOLEAN, h \in HalfDecades, kpd \in KPerDecade \ {1},
     c \in Correlations, n \in {0, 1}, a \in {0, 1}}
  \cup {[t |-> Ppt(m[1], m[2], FALSE, h), r |-> Ppr(kpd),
         p |-> [Ppm("analytic_Pk") EXCEPT !.A_s = A]] :
          m \in Modes, h \in HalfDecades, kpd \in KPerDecade,
          A \in {Pow(1, -4), Zero}}

OtherConfigs ==
  {[t |-> Ppt(m[1], m[2], hc, h), r |-> Ppr(kpd), p |-> Ppm(type)] :
     m \in Modes, hc \in BOOLEAN, h \in HalfDecades, kpd \in KPerDecade,
     type \in SpecTypes \ {"analytic_Pk"}}

\* no perturbations requested; k_min = 0; k_max = k_min
DegenerateConfigs ==
  {[t |-> [Ppt(TRUE, TRUE, FALSE, 1) EXCEPT !.has_perturbations = FALSE],
    r |-> Ppr(2), p |-> Ppm("analytic_Pk")],
   [t |-> [Ppt(TRUE, TRUE, FALSE, 1) EXCEPT !.k_min = Zero],
    r |-> Ppr(2), p |-> Ppm("analytic_Pk")],
   [t |-> [Ppt(TRUE, TRUE, FALSE, 1) EXCEPT !.k_max = Pow(1, 0)],
    r |-> Ppr(2), p |-> Ppm("analytic_Pk")]}

Configs == AnalyticConfigs \cup OtherConfigs \cup DegenerateConfigs

\* what primordial_inflation_solve_inflation can return: an error, or (except
\* for inflation_V_end, which always stops) the spectra ln P_s and ln P_t
SolveOutcomes(type) ==
  {[status |-> _FAILURE_, lnpk_s |-> 0, lnpk_t |-> 0]}
    \cup (IF type = "inflation_V_end" THEN {}
          ELSE {[status |-> _SUCCESS_, lnpk_s |-> ls, lnpk_t |-> -8] : ls \in {-4, -6}})

\* the wavenumbers the external command can print: powers of ten, or "nan"
ExtK == {Pow(1, Ln10 * j) : j \in {-1, 0, 1, 2}} \cup {NaN}

\* the scalar spectrum the external command prints next to k: a tilted power law
ExtPks(k) == IF k.kind = "pow" THEN Pow(1, -4 - 2 * (k.e \div Ln10)) ELSE Pow(1, -4)

\* the tensor spectrum it prints: flat
ExtPkt == Pow(1, -8)

\* the lines the external command can print: nf is the number of leading
\* fields sscanf can convert, the fields after them are not looked at
Lines ==
  {[nf |-> 0, k |-> Zero, pks |-> Zero, pkt |-> Zero]}
    \cup {[nf |-> n, k |-> k, pks |-> IF n >= 2 THEN ExtPks(k) ELSE Zero,
           pkt |-> IF n >= 3 THEN ExtPkt ELSE Zero] : n \in 1 .. 3, k \in ExtK}

\* the number of fields primordial_external_spectrum_init asks sscanf for
fields_wanted(t) == IF t.has_tensors THEN 3 ELSE 2

\* the lines of a command that prints what is asked for: numbers, all fields
WellFormedLines(t) == {l \in Lines : l.nf = fields_wanted(t) /\ l.k.kind = "pow"}

\* what the never assigned locals this_k, this_pks, this_pkt can hold
Garbage == {[k |-> k, pks |-> Pow(1, -10), pkt |-> Pow(1, -10)] : k \in ExtK}

\* the ln k of the queries to primordial_spectrum_at_k
QueryLnk == {2 * j : j \in -1 .. 2 * MaxHalfDecades + 3}

QueryInputs(mode) ==
  IF mode = "linear" THEN {Pow(1, n) : n \in QueryLnk} \cup {Zero}
  ELSE {Lin(n) : n \in QueryLnk}

NoCall ==
  [done |-> FALSE, index_md |-> 0, mode |-> "linear", input |-> Zero,
   outside |-> FALSE, status |-> _SUCCESS_, path |-> "none", output |-> <<>>]

NoExt ==
  [status |-> "none", exit |-> 0, n_data |-> 0, n_data_guess |-> 0,
   k |-> <<>>, pks |-> <<>>, pkt |-> <<>>,
   this_k |-> Uninit, this_pks |-> Uninit, this_pkt |-> Uninit,
   malformed |-> FALSE, process |-> "none", reads |-> {}, stored_at |-> -1]

\* no routine of the inflation simulator is being run
NoSim == [routine |-> "none"]

Init ==
  \E c \in Configs :
    /\ ppt = c.t
    /\ ppr = c.r
    /\ ppm = c.p
    /\ heap = [a \in HeapArrays |->
                 IF a = "command" /\ c.p.primordial_spec_type = "external_Pk"
                 THEN "allocated" ELSE "unallocated"]
    /\ pc = "config"
    /\ ret = "none"
    /\ ext = NoExt
    /\ call = NoCall
    /\ sim = NoSim

(***************************************************************************)
(* Actions of the primordial module                                        *)
(***************************************************************************)

\* the tests of primordial_init before anything is allocated
init_rejects_input(t, r, p) ==
  \/ Le(t.k_min, Zero)
  \/ Le(t.k_max, Zero)
  \/ Le(p.k_pivot, Zero)
  \/ r.k_per_decade_primordial <= 0
  \/ r.k_per_decade_primordial <= K_PER_DECADE_PRIMORDIAL_MIN
  \/ primordial_get_lnk_list(t.k_min, t.k_max, r.k_per_decade_primordial).status = _FAILURE_

\* the class_test's at the top of the inflation and external branches
branch_rejects_modes(t, p) ==
  IF p.primordial_spec_type = "external_Pk"
  THEN t.has_scalars = FALSE \/ t.has_cdi = TRUE
  ELSE t.has_scalars = FALSE \/ t.has_tensors = FALSE \/ t.has_cdi = TRUE

\* the end of primordial_init, from the spline on: the pivot queries and the
\* derived parameters; an error of a query returns without primordial_free
init_tail(q, outside) ==
  /\ ppm' = IF pivot_query_fails(ppt, ppr, q, outside) THEN q
            ELSE derived_parameters(ppt, ppr, q)
  /\ ret' = IF pivot_query_fails(ppt, ppr, q, outside) THEN _FAILURE_ ELSE _SUCCESS_
  /\ pc' = IF pivot_query_fails(ppt, ppr, q, outside) THEN "failed" ELSE "ready"

\* primordial_init: all of it, except that with an external spectrum it is
\* left after popen(), the lines of the command being read one at a time
primordial_init_call ==
  /\ pc = "config"
  /\ call' = call
  /\ UNCHANGED <<ppt, ppr, sim>>
  /\ LET q == table_allocated(ppt, ppr, ppm)
         h == Alloc(heap, TableArrays)
         type == ppm.primordial_spec_type
     IN  IF ppt.has_perturbations = FALSE
         THEN /\ ppm' = [ppm EXCEPT !.lnk_size = 0]
              /\ ret' = _SUCCESS_ /\ pc' = "ready"
              /\ UNCHANGED <<heap, ext>>
         ELSE IF init_rejects_input(ppt, ppr, ppm)
         THEN /\ ret' = _FAILURE_ /\ pc' = "failed"
              /\ UNCHANGED <<ppm, heap, ext>>
         ELSE IF type = "analytic_Pk"
         THEN IF analytic_init_fails(ppt, ppm)
              THEN /\ ppm' = q
                   /\ heap' = primordial_free(q, Alloc(h, AnalyticArrays))
                   /\ ret' = _FAILURE_ /\ pc' = "failed"
                   /\ ext' = ext
              ELSE /\ heap' = Alloc(h, AnalyticArrays)
                   /\ ext' = ext
                   /\ init_tail(analytic_branch(ppt, q), FALSE)
         ELSE IF type \in {"inflation_V", "inflation_H", "inflation_V_end"}
         THEN IF branch_rejects_modes(ppt, ppm)
              THEN /\ ppm' = q /\ heap' = h
                   /\ ret' = _FAILURE_ /\ pc' = "failed"
                   /\ ext' = ext
              ELSE \E o \in SolveOutcomes(type) :
                     IF o.status = _FAILURE_
                     THEN /\ ppm' = q /\ heap' = primordial_free(q, h)
                          /\ ret' = _FAILURE_ /\ pc' = "failed"
                          /\ ext' = ext
                     ELSE /\ heap' = h
                          /\ ext' = ext
                          /\ init_tail(inflation_branch(ppt, q, o), FALSE)
         ELSE IF type = "external_Pk"
         THEN IF branch_rejects_modes(ppt, ppm)
              THEN /\ ppm' = q /\ heap' = h
                   /\ ret' = _FAILURE_ /\ pc' = "failed"
                   /\ ext' = ext
              ELSE /\ ppm' = q
                   /\ heap' = Alloc(h, IF ppt.has_tensors THEN {"k", "pks", "pkt"}
                                       ELSE {"k", "pks"})
                   /\ ext' = [NoExt EXCEPT !.status = "running",
                                           !.n_data_guess = n_data_guess_initial,
                                           !.process = "open"]
                   /\ ret' = ret /\ pc' = "ext_read"
         ELSE /\ ppm' = q /\ heap' = h
              /\ ret' = _FAILURE_ /\ pc' = "failed"
              /\ ext' = ext

\* an error return of primordial_external_spectrum_init: primordial_init
\* calls primordial_free and returns the error
external_error(e) ==
  /\ ext' = [e EXCEPT !.status = _FAILURE_]
  /\ heap' = primordial_free(ppm, heap)
  /\ ret' = _FAILURE_
  /\ pc' = "failed"
  /\ ppm' = ppm

buffers_full_late(n_data, n_data_guess) == n_data > n_data_guess

\* if((n_data+1) > n_data_guess)
buffers_full(n_data, n_data_guess) == (n_data + 1) > n_data_guess

\* one pass of the loop while (fgets(...) != NULL): sscanf, the doubling of
\* the buffers when they are full, store, test the order; g is what the
\* locals hold as long as no sscanf has assigned them, reallocated whether
\* the realloc's of a doubling succeed, lines_max the lines the command prints
\* at most
ext_read_line_of(line, g, lines_max, reallocated) ==
  /\ pc = "ext_read"
  /\ ext.n_data < lines_max
  /\ UNCHANGED <<ppt, ppr, call, sim>>
  /\ LET n == ext.n_data
         this_k == IF line.nf >= 1 THEN line.k
                   ELSE IF ext.this_k = Uninit THEN g.k ELSE ext.this_k
         this_pks == IF line.nf >= 2 THEN line.pks
                     ELSE IF ext.this_pks = Uninit THEN g.pks ELSE ext.this_pks
         this_pkt == IF ppt.has_tensors /\ line.nf >= 3 THEN line.pkt
                     ELSE IF ppt.has_tensors /\ ext.this_pkt = Uninit THEN g.pkt
                     ELSE ext.this_pkt
         e == [ext EXCEPT
                 !.this_k = this_k, !.this_pks = this_pks, !.this_pkt = this_pkt,
                 !.n_data_guess = IF buffers_full(n, @) THEN 2 * @ ELSE @,
                 !.stored_at = n,
                 !.k = [i \in 0 .. n |-> IF i = n THEN this_k ELSE ext.k[i]],
                 !.pks = [i \in 0 .. n |-> IF i = n THEN this_pks ELSE ext.pks[i]],
                 !.pkt = IF ppt.has_tensors
                         THEN [i \in 0 .. n |-> IF i = n THEN this_pkt ELSE ext.pkt[i]]
                         ELSE @,
                 !.n_data = n + 1,
                 !.malformed = @ \/ line.nf < fields_wanted(ppt)]
     IN  IF buffers_full(n, ext.n_data_guess) /\ ~reallocated
         THEN external_error([ext EXCEPT !.this_k = this_k,
                                         !.this_pks = this_pks,
                                         !.this_pkt = this_pkt,
                                         !.n_data_guess = 2 * @])
         ELSE IF e.n_data > 1 /\ Le(e.k[e.n_data - 1], e.k[e.n_data - 2])
         THEN external_error(e)
         ELSE /\ ext' = e
              /\ UNCHANGED <<ppm, heap, ret, pc>>

\* a line of a command that prints at most MaxLines lines, so that the
\* buffers, which start with room for n_data_guess_initial, are never full
ext_read_line(line, g) == ext_read_line_of(line, g, MaxLines, TRUE)

\* ppm after step 3 of primordial_external_spectrum_init
external_store(t, p, e) ==
  [p EXCEPT
     !.lnk_size = e.n_data,
     !.lnk = [index_k \in 0 .. e.n_data - 1 |-> Log(e.k[index_k])],
     !.lnpk = [index_md \in 0 .. p.md_size - 1 |->
                 [index_k \in 0 .. e.n_data - 1 |->
                    IF is_scalars(t, index_md) THEN Log(e.pks[index_k])
                    ELSE Log(e.pkt[index_k])]],
     !.is_non_zero = [index_md \in 0 .. p.md_size - 1 |-> [i \in {0} |-> TRUE]]]

\* the indices of k the two tests of the limits read: none when the test of
\* the exit status has returned, k[1] alone when the first test returns
limits_read(n_data, status, too_high) ==
  IF status # 0 THEN {}
  ELSE IF too_high THEN {1}
  ELSE {1, n_data - 2}

\* fgets returns NULL: pclose, the test of the exit status, the two tests of
\* the limits, the storage, and then the end of primordial_init.  With less
\* than two lines read, k[1] was never written and k[n_data-2] is before the
\* buffer: ub_min and ub_max are what the two tests of the limits then answer;
\* ub_range is what the range test of a pivot query answers on an empty table
ext_eof(status, ub_min, ub_max, ub_range) ==
  /\ pc = "ext_read"
  /\ ext.n_data >= 2 => ~ub_min /\ ~ub_max
  /\ ext.n_data >= 1 => ~ub_range
  /\ UNCHANGED <<ppt, ppr, call, sim>>
  /\ LET n == ext.n_data
         too_high == IF n >= 2 THEN Gt(ext.k[1], ppt.k_min) ELSE ub_min
         too_low == IF n >= 2 THEN Lt(ext.k[n - 2], ppt.k_max) ELSE ub_max
         e == [ext EXCEPT !.exit = status, !.process = "closed",
                          !.reads = limits_read(n, status, too_high)]
     IN  IF status # 0 \/ too_high \/ too_low
         THEN external_error(e)
         ELSE /\ ext' = [e EXCEPT !.status = _SUCCESS_]
              /\ heap' = Free(heap, IF ppt.has_tensors THEN {"k", "pks", "pkt"}
                                    ELSE {"k", "pks"})
              /\ init_tail(external_store(ppt, ppm, e), ub_range)

\* a call of primordial_spectrum_at_k on the table primordial_init built
spectrum_at_k_call(index_md, mode, input, outside) ==
  /\ pc = "ready"
  /\ ppt.has_perturbations
  /\ index_md \in 0 .. ppm.md_size - 1
  /\ outside \in range_test(ppm, lnk_of_input(mode, input))
  /\ LET res == primordial_spectrum_at_k(ppm, index_md, mode, input, outside)
     IN  call' = [done |-> TRUE, index_md |-> index_md, mode |-> mode,
                  input |-> input, outside |-> outside, status |-> res.status,
                  path |-> res.path, output |-> res.output]
  /\ UNCHANGED <<ppt, ppr, ppm, heap, pc, ret, ext, sim>>

\* a call of primordial_free, at the end of the run (after primordial_init
\* has succeeded or failed) or once more after it
primordial_free_call ==
  /\ pc \in {"ready", "failed", "freed"}
  /\ heap' = primordial_free(ppm, heap)
  /\ pc' = "freed"
  /\ UNCHANGED <<ppt, ppr, ppm, ret, ext, call, sim>>

Next ==
  \/ primordial_init_call
  \/ \E line \in WellFormedLines(ppt), g \in Garbage : ext_read_line(line, g)
  \/ \E status \in {0, 1}, ub_min, ub_max, ub_range \in BOOLEAN :
       ext_eof(status, ub_min, ub_max, ub_range)
  \/ \E index_md \in {0, 1}, mode \in {"linear", "logarithmic"} :
       \E input \in QueryInputs(mode), outside \in BOOLEAN :
         spectrum_at_k_call(index_md, mode, input, outside)
  \/ primordial_free_call

Spec == Init /\ [][Next]_vars

(***************************************************************************)
(* The same module fed by an external command that can print anything      *)
(***************************************************************************)

InitExternal ==
  /\ Init
  /\ ppm.primordial_spec_type = "external_Pk"
  /\ ppr.k_per_decade_primordial = 2

NextExternal ==
  \/ primordial_init_call
  \/ \E line \in Lines, g \in Garbage : ext_read_line(line, g)
  \/ \E status \in {0, 1}, ub_min, ub_max, ub_range \in BOOLEAN :
       ext_eof(status, ub_min, ub_max, ub_range)

SpecExternal == InitExternal /\ [][NextExternal]_vars

(***************************************************************************)
(* The same module fed by a command that prints many lines, in order       *)
(***************************************************************************)

MaxBufferLines == 210

\* line number n of the command: all the fields, k increasing with n
BufferLine(n) == [nf |-> 3, k |-> Pow(1, n), pks |-> Pow(1, -4), pkt |-> ExtPkt]

InitBuffer ==
  /\ InitExternal
  /\ ppt.has_scalars

NextBuffer ==
  \/ primordial_init_call
  \/ \E g \in Garbage, reallocated \in BOOLEAN :
       ext_read_line_of(BufferLine(ext.n_data), g, MaxBufferLines, reallocated)

SpecBuffer == InitBuffer /\ [][NextBuffer]_vars

\* the capacity changes only by doubling, and it is doubled by the pass that
\* finds n_data + 1 above it
capacity_doubles ==
  /\ ext'.n_data_guess # ext.n_data_guess /\ ext.status = "running"
       => /\ ext'.n_data_guess = 2 * ext.n_data_guess
          /\ ext.n_data + 1 > ext.n_data_guess
  /\ (ext.status = "running" /\ ext' # ext
      /\ ext.n_data + 1 > ext.n_data_guess)
       => ext'.n_data_guess = 2 * ext.n_data_guess

\* C26: while primordial_external_spectrum_init reads lines, every store
\* k[n_data], pks[n_data], pkt[n_data] is at an index below the capacity
\* n_data_guess of that moment; the capacity starts at 100 and changes only
\* by doubling, which the pass that finds n_data + 1 above it does.
C26_StoresWithinCapacity ==
  /\ [](/\ ext.stored_at < ext.n_data_guess
        /\ ext.status # "none" =>
             \E j \in 0 .. 3 : ext.n_data_guess = n_data_guess_initial * 2 ^ j)
  /\ [][capacity_doubles]_vars

\* C26, its case: the sample of index 200 was stored after the second
\* doubling of the buffers
C26_Witness ==
  /\ ext.status = "running"
  /\ ext.stored_at = 2 * n_data_guess_initial
  /\ ext.n_data_guess = 4 * n_data_guess_initial

(***************************************************************************)
(* Properties of primordial_spectrum_at_k                                  *)
(***************************************************************************)

\* ln k of the last call
call_lnk == lnk_of_input(call.mode, call.input)

\* the last call passed the test of its input and found a table whose two
\* ends are numbers
call_on_table ==
  /\ call.done
  /\ ~(call.mode = "linear" /\ Le(call.input, Zero))
  /\ ppm.lnk_size > 0
  /\ IsInt(ppm.lnk[0]) /\ IsInt(ppm.lnk[ppm.lnk_size - 1])

\* ln k of the last call lies in [lnk[0], lnk[lnk_size-1]], ends included
call_inside == Le(ppm.lnk[0], call_lnk) /\ Le(call_lnk, ppm.lnk[ppm.lnk_size - 1])

\* C9: a call with ln k outside [lnk[0], lnk[lnk_size-1]] returns an error when
\* the spectrum is not analytic and the directly computed analytic spectrum when
\* it is; a call with ln k inside the range, both ends included, interpolates
\* in the table.
C9_RangeDispatch ==
  call_on_table =>
    IF call_inside
    THEN /\ call.status = _SUCCESS_ /\ call.path = "table"
         /\ call.mode = "logarithmic" =>
              call.output = array_interpolate_spline(ppm, call.index_md, call_lnk)
    ELSE IF ppm.primordial_spec_type # "analytic_Pk"
    THEN call.status = _FAILURE_
    ELSE /\ call.status = _SUCCESS_ /\ call.path = "direct"
         /\ call.mode = "linear" =>
              \A i \in DOMAIN call.output :
                call.output[i] =
                  primordial_analytic_spectrum(ppm, call.index_md, i, call.input)

\* C9, its case: a call at the upper end of the table of an analytic spectrum,
\* where a direct computation was possible, was answered from the table
C9_Witness ==
  /\ call_on_table
  /\ ppm.primordial_spec_type = "analytic_Pk"
  /\ call_lnk = ppm.lnk[ppm.lnk_size - 1]
  /\ call.path = "table"
  /\ call.status = _SUCCESS_

\* P_ij / sqrt(P_ii * P_jj) of the analytic spectrum at wavenumber k
correlation_angle(p, index_md, index_ic1_ic2, k) ==
  Div(primordial_analytic_spectrum(p, index_md, index_ic1_ic2, k),
      Sqrt(Mul(primordial_analytic_spectrum(p, index_md, diag1(p, index_md, index_ic1_ic2), k),
               primordial_analytic_spectrum(p, index_md, diag2(p, index_md, index_ic1_ic2), k))))

\* x is the angle a, or a enforced into [-1,1]
is_angle(x, a) ==
  \/ x = a
  \/ Gt(a, Lin(1)) /\ x = Lin(1)
  \/ Lt(a, Lin(-1)) /\ x = Lin(-1)

\* C3: in logarithmic mode, on the table (at a knot) and on the direct path
\* alike, the output is ln P_ii for a diagonal pair and the correlation angle
\* P_ij/sqrt(P_ii*P_jj) for a non-zero off-diagonal pair.
C3_LogarithmicOutput ==
  ( /\ call_on_table
    /\ ppm.primordial_spec_type = "analytic_Pk"
    /\ call.mode = "logarithmic"
    /\ call.status = _SUCCESS_
    /\ call.path = "direct" \/ \E index_k \in 0 .. ppm.lnk_size - 1 : ppm.lnk[index_k] = call_lnk )
  => \A i \in DOMAIN call.output :
       IF IsDiagonal(ppm, call.index_md, i)
       THEN call.output[i] =
              Log(primordial_analytic_spectrum(ppm, call.index_md, i, Exp(call_lnk)))
       ELSE ppm.is_non_zero[call.index_md][i] = TRUE =>
              is_angle(call.output[i],
                       correlation_angle(ppm, call.index_md, i, Exp(call_lnk)))

(***************************************************************************)
(* Properties of primordial_init                                           *)
(***************************************************************************)

\* C4: when primordial_init returns an error, none of the arrays of the table
\* (lnk, lnpk, ddlnpk, is_non_zero, ic_size, ic_ic_size) is left allocated.
C4_NoPartialTable ==
  pc = "failed" => \A a \in TableArrays : heap[a] # "allocated"

\* C10: after a successful primordial_init with perturbations requested, lnk
\* is strictly increasing.
C10_LnkIncreasing ==
  (pc = "ready" /\ ppt.has_perturbations) =>
    \A i \in 0 .. ppm.lnk_size - 2 : Lt(ppm.lnk[i], ppm.lnk[i + 1])

\* C24: no table buffer is freed twice: when primordial_init has failed, in
\* a step that had called primordial_free itself or before, the call of
\* primordial_free the caller makes at the end of the run frees nothing that
\* was freed already.
C24_NoDoubleFree ==
  [][(pc = "failed" /\ pc' = "freed")
     => \A a \in HeapArrays : heap'[a] # "double_freed"]_vars

(***************************************************************************)
(* Properties of primordial_external_spectrum_init                         *)
(***************************************************************************)

\* C7: primordial_external_spectrum_init returns success only if the k's read
\* are strictly ascending, the command exited with status 0, and two samples
\* at least lie at or below k_min and two at or above k_max.
C7_ExternalAccepts ==
  ext.status = _SUCCESS_ =>
    /\ \A i \in 0 .. ext.n_data - 2 : Lt(ext.k[i], ext.k[i + 1])
    /\ ext.exit = 0
    /\ ext.n_data >= 2
    /\ Le(ext.k[1], ppt.k_min)
    /\ Ge(ext.k[ext.n_data - 2], ppt.k_max)

\* C25: primordial_external_spectrum_init reads no sample at an index outside
\* 0 .. n_data-1, and with less than two lines read it returns an error.
C25_SamplesReadInRange ==
  /\ \A i \in ext.reads : i \in 0 .. ext.n_data - 1
  /\ ext.n_data < 2 => ext.status # _SUCCESS_

\* C8: primordial_external_spectrum_init returns an error when a line of the
\* command lacks one of the fields asked for, so that no value left from an
\* earlier line, or never assigned, is stored.
C8_MalformedRejected == ext.status = _SUCCESS_ => ~ext.malformed


-----------------------------------------------------------------------------
\* The inflation simulator, one routine at a time.  The potential, the
\* integrator and the derivatives are followed through what the routines
\* test of them: a status, and the side of a threshold a value falls on.

MaxEvolveSteps == 3

InflationTypes == {"inflation_V", "inflation_H", "inflation_V_end"}

Potentials == {"polynomial", "natural", "other"}

Targets == {"_aH_", "_phi_", "_end_inflation_"}

Directions == {"forward", "backward"}

\* epsilon below, at and above one
EpsilonValues == {Pow(1, -1), Pow(1, 0), Pow(1, 1)}

\* ppm as the simulator reads it
PpmInflation(type, potential) ==
  [primordial_spec_type |-> type, potential |-> potential]

is_inflation_V(p) ==
  p.primordial_spec_type \in {"inflation_V", "inflation_V_end"}

primordial_inflation_potential(p) ==
  IF p.potential \in {"polynomial", "natural"} THEN _SUCCESS_ ELSE _FAILURE_

primordial_inflation_hubble(p) == _SUCCESS_

\* allowed: V > 0 and dV < 0 at the field value
primordial_inflation_check_potential(p, allowed) ==
  IF primordial_inflation_potential(p) = _FAILURE_ THEN _FAILURE_
  ELSE IF allowed THEN _SUCCESS_ ELSE _FAILURE_

\* allowed: H >= 0 and dH <= 0 at the field value
primordial_inflation_check_hubble(p, allowed) ==
  IF primordial_inflation_hubble(p) = _FAILURE_ THEN _FAILURE_
  ELSE IF allowed THEN _SUCCESS_ ELSE _FAILURE_

primordial_inflation_get_epsilon(p) ==
  CASE is_inflation_V(p) -> primordial_inflation_potential(p)
    [] p.primordial_spec_type = "inflation_H" -> primordial_inflation_hubble(p)
    [] OTHER -> _FAILURE_

primordial_inflation_derivs(p) ==
  CASE is_inflation_V(p) -> primordial_inflation_potential(p)
    [] p.primordial_spec_type = "inflation_H" -> primordial_inflation_hubble(p)
    [] OTHER -> _FAILURE_

\* the routine returns: its status and the error it reports
returned(s, status, error) ==
  [s EXCEPT !.at = "returned", !.status = status, !.error = error]

cleanup_generic_integrator(s) == [s EXCEPT !.gi = "cleaned"]

\* a call of evolve_background: steps is the number of passes of the loop
\* after which the target is reached
EvolveCall(target, direction, check_epsilon, steps) ==
  [routine |-> "evolve_background", target |-> target,
   direction |-> direction, check_epsilon |-> check_epsilon,
   steps |-> steps, x |-> 0, gi |-> "uninitialized", epsilon |-> Uninit,
   epsilon_old |-> Uninit, epsilon_seen |-> <<>>, written |-> {}, at |-> "call",
   stop |-> Fraction(1, 1), y_phi |-> Fraction(0, 1), dy_phi |-> Fraction(1, 1),
   last_steps |-> 0, status |-> "running", error |-> "none"]

\* the same call with the stop, the y[index_in_phi] it is handed and the
\* dy[index_in_phi] that the first call of derivs gives for it
EvolveCallFrom(c, stop, y_phi, dy_phi) ==
  [c EXCEPT !.stop = stop, !.y_phi = y_phi, !.dy_phi = dy_phi]

\* a call of one_k
OneKCall ==
  [routine |-> "one_k", x |-> 0, gi |-> "uninitialized", k_over_aH |-> Uninit,
   dlnPdN |-> Uninit, at |-> "call", status |-> "running", error |-> "none"]

\* the layout of the vector y of the simulator: the background (a, phi and,
\* for a potential, dphi) and then the eight components of the perturbations
primordial_inflation_indices(p) ==
  LET in_bg_size == IF is_inflation_V(p) THEN 3 ELSE 2 IN
    [index_in_a |-> 0, index_in_phi |-> 1,
     index_in_dphi |-> IF is_inflation_V(p) THEN 2 ELSE -1,
     in_bg_size |-> in_bg_size, in_size |-> in_bg_size + 8]

pipaw_N_whole_background(p, direction) == primordial_inflation_indices(p).in_bg_size

\* the number of equations evolve_background hands to the integrator
pipaw_N(p, direction) ==
  IF direction = "backward" /\ is_inflation_V(p)
  THEN primordial_inflation_indices(p).in_bg_size - 1
  ELSE primordial_inflation_indices(p).in_bg_size

\* a step of the integrator over N equations writes y[0] .. y[N-1]
generic_integrator(s, N) == [s EXCEPT !.written = @ \cup 0 .. N - 1]

last_step_dtau_none(target, stop, y_phi, dy_phi) ==
  IF target = "_phi_" THEN Fraction(0, 1) ELSE Opaque

\* the dtau of the last step: (stop-y[index_in_phi])/dy[index_in_phi] for
\* the target _phi_; for the other targets the model does not compute it
last_step_dtau(target, stop, y_phi, dy_phi) ==
  IF target = "_phi_" THEN frac_div(frac_sub(stop, y_phi), dy_phi) ELSE Opaque

\* the last, trapezoidal step of evolve_background
evolve_background_last_step(p, s) ==
  LET in == primordial_inflation_indices(p)
      dtau == last_step_dtau(s.target, s.stop, s.y_phi, s.dy_phi)
  IN  [s EXCEPT !.written =
         @ \cup {in.index_in_a, in.index_in_phi}
           \cup (IF s.direction = "forward" /\ is_inflation_V(p)
                 THEN {in.index_in_dphi} ELSE {}),
                !.y_phi = IF dtau = Opaque THEN Opaque
                          ELSE frac_add(@, frac_mul(s.dy_phi, dtau)),
                !.last_steps = @ + 1]

\* evolve_background once its loop is over: the cleanup, the last
\* trapezoidal step and the derivatives at the end point
evolve_background_end(p, s, allowed) ==
  LET c == cleanup_generic_integrator(s)
      l == evolve_background_last_step(p, c)
  IN  IF s.target = "_end_inflation_"
         /\ primordial_inflation_check_potential(p, allowed) = _FAILURE_
      THEN returned(c, _FAILURE_, "check_potential")
      ELSE IF primordial_inflation_derivs(p) = _FAILURE_
      THEN returned(l, _FAILURE_, "derivs")
      ELSE returned([l EXCEPT !.dy_phi = Opaque], _SUCCESS_, "none")

\* evolve_background from its first statement to the test of its loop
evolve_background_begin(p, s, epsilon, allowed) ==
  LET g == [s EXCEPT !.gi = "initialized"]
      e == IF s.check_epsilon
           THEN [g EXCEPT !.epsilon = epsilon, !.epsilon_seen = <<epsilon>>]
           ELSE g
  IN  IF s.check_epsilon /\ primordial_inflation_get_epsilon(p) = _FAILURE_
      THEN returned(g, _FAILURE_, "get_epsilon")
      ELSE IF primordial_inflation_derivs(p) = _FAILURE_
      THEN returned(e, _FAILURE_, "derivs")
      ELSE IF s.target = "_end_inflation_"
              /\ p.primordial_spec_type # "inflation_V_end"
      THEN returned(e, _FAILURE_, "target")
      ELSE IF s.steps = 0 THEN evolve_background_end(p, e, allowed)
      ELSE [e EXCEPT !.at = "loop"]

\* epsilon went from at most one to more than one
epsilon_crosses(epsilon, epsilon_old) ==
  Gt(epsilon, Pow(1, 0)) /\ Le(epsilon_old, Pow(1, 0))

\* one pass of the loop of evolve_background, and what follows the loop when
\* the pass was the last
evolve_background_pass(p, s, allowed, small, integrated, epsilon, allowed_end, y_end) ==
  LET checked == IF is_inflation_V(p)
                 THEN primordial_inflation_check_potential(p, allowed)
                 ELSE primordial_inflation_check_hubble(p, allowed)
      w == generic_integrator(s, pipaw_N(p, s.direction))
      i == [w EXCEPT !.y_phi = y_end.y_phi]
      e == IF s.check_epsilon
           THEN [i EXCEPT !.epsilon_old = s.epsilon, !.epsilon = epsilon,
                          !.epsilon_seen = Append(@, epsilon)]
           ELSE i
      n == [e EXCEPT !.x = @ + 1, !.dy_phi = y_end.dy_phi]
  IN  IF checked = _FAILURE_ THEN returned(s, _FAILURE_, "check")
      ELSE IF small /\ s.x > 0 THEN returned(s, _FAILURE_, "step")
      ELSE IF ~integrated THEN returned(i, _FAILURE_, "generic_integrator")
      ELSE IF s.check_epsilon
              /\ primordial_inflation_get_epsilon(p) = _FAILURE_
      THEN returned(cleanup_generic_integrator(i), _FAILURE_, "get_epsilon")
      ELSE IF s.check_epsilon /\ epsilon_crosses(e.epsilon, e.epsilon_old)
      THEN returned(cleanup_generic_integrator(e), _FAILURE_, "epsilon")
      ELSE IF primordial_inflation_derivs(p) = _FAILURE_
      THEN returned(e, _FAILURE_, "derivs")
      ELSE IF n.x = n.steps THEN evolve_background_end(p, n, allowed_end)
      ELSE n

primordial_inflation_evolve_background_call(epsilon, allowed) ==
  /\ sim.routine = "evolve_background"
  /\ sim.at = "call"
  /\ sim' = evolve_background_begin(ppm, sim, epsilon, allowed)
  /\ UNCHANGED <<module_vars, ppm>>

\* y_end: the y[index_in_phi] the integrator ends the step on and the
\* dy[index_in_phi] derivs gives there
primordial_inflation_evolve_background_step(allowed, small, integrated, epsilon, allowed_end, y_end) ==
  /\ sim.routine = "evolve_background"
  /\ sim.at = "loop"
  /\ sim' = evolve_background_pass(ppm, sim, allowed, small, integrated,
                                   epsilon, allowed_end, y_end)
  /\ UNCHANGED <<module_vars, ppm>>


\* one_k from its first statement to the entry of its loop
one_k_begin(p, s) ==
  LET g == [s EXCEPT !.gi = "initialized"] IN
    IF primordial_inflation_derivs(p) = _FAILURE_
    THEN returned(g, _FAILURE_, "derivs")
    ELSE [g EXCEPT !.at = "loop"]

\* the precision parameters one_k reads
PprOneK ==
  [k_per_decade_primordial |-> K_PER_DECADE_PRIMORDIAL_MIN,
   primordial_inflation_ratio_max |-> Pow(1, -2),
   primordial_inflation_tol_curvature |-> Pow(1, -3)]

\* k/aH at the end of a step: above, at and below ratio_max
HorizonRatios == {Pow(1, 0), Pow(1, -2), Pow(1, -4)}

\* dlnPdN of the first step, whose curvature_old is _HUGE_
FirstVariation == Pow(-1, 9)

\* dlnPdN at the end of a later step
CurvatureVariations ==
  {Pow(-1, 0), Pow(-1, -3), Pow(-1, -5), Pow(1, -5), Pow(1, -3), Pow(1, 0)}

\* fabs(x) of math.h, on a signed power
fabs(x) == IF x.kind = "pow" THEN Pow(1, x.e) ELSE x

one_k_goes_on_if_both(r, k_over_aH, dlnPdN) ==
  /\ Ge(k_over_aH, r.primordial_inflation_ratio_max)
  /\ Gt(fabs(dlnPdN), r.primordial_inflation_tol_curvature)

\* the condition of the do ... while of one_k
one_k_goes_on(r, k_over_aH, dlnPdN) ==
  \/ Ge(k_over_aH, r.primordial_inflation_ratio_max)
  \/ Gt(fabs(dlnPdN), r.primordial_inflation_tol_curvature)

\* one pass of the loop of one_k, and what follows the loop when the pass
\* was the last.  k_over_aH and dlnPdN: what the pass computes of them
one_k_pass(p, r, s, small, integrated, k_over_aH, dlnPdN) ==
  LET n == [s EXCEPT !.x = @ + 1, !.k_over_aH = k_over_aH,
                     !.dlnPdN = dlnPdN]
  IN  IF small /\ s.x > 0 THEN returned(s, _FAILURE_, "step")
      ELSE IF ~integrated THEN returned(s, _FAILURE_, "generic_integrator")
      ELSE IF primordial_inflation_derivs(p) = _FAILURE_
      THEN returned(s, _FAILURE_, "derivs")
      ELSE IF one_k_goes_on(r, k_over_aH, dlnPdN) THEN n
      ELSE returned(cleanup_generic_integrator(n), _SUCCESS_, "none")

primordial_inflation_one_k_call ==
  /\ sim.routine = "one_k"
  /\ sim.at = "call"
  /\ sim' = one_k_begin(ppm, sim)
  /\ UNCHANGED <<module_vars, ppm>>

primordial_inflation_one_k_step(small, integrated, k_over_aH, dlnPdN) ==
  /\ sim.routine = "one_k"
  /\ sim.at = "loop"
  /\ sim.x = 0 <=> dlnPdN = FirstVariation
  /\ sim.x + 1 = MaxEvolveSteps => ~one_k_goes_on(ppr, k_over_aH, dlnPdN)
  /\ sim' = one_k_pass(ppm, ppr, sim, small, integrated, k_over_aH, dlnPdN)
  /\ UNCHANGED <<module_vars, ppm>>

\* the module around a routine of the simulator run on its own
SimulatorModule ==
  /\ ppt = Ppt(TRUE, TRUE, FALSE, 1)
  /\ heap = [a \in HeapArrays |-> "unallocated"]
  /\ pc = "config"
  /\ ret = "none"
  /\ ext = NoExt
  /\ call = NoCall

\* the field value evolve_background is asked to stop on
PhiStop == Fraction(1, 1)

\* y[index_in_phi] and dy[index_in_phi] at the call or at the end of a step:
\* the field short of the stop or beyond it, its derivative never zero
PhiStates ==
  {[y_phi |-> Fraction(0, 1), dy_phi |-> Fraction(1, 3)],
   [y_phi |-> Fraction(5, 4), dy_phi |-> Fraction(-2, 7)]}

InitEvolve ==
  /\ SimulatorModule
  /\ ppr = PprOneK
  /\ ppm \in {PpmInflation(t, v) : t \in InflationTypes, v \in Potentials}
  /\ sim \in {EvolveCallFrom(EvolveCall(t, d, c, n), PhiStop, y.y_phi, y.dy_phi) :
                t \in Targets, d \in Directions, c \in BOOLEAN,
                n \in 0 .. MaxEvolveSteps, y \in PhiStates}
             \cup {OneKCall}

NextEvolve ==
  \/ \E epsilon \in EpsilonValues, allowed \in BOOLEAN :
       primordial_inflation_evolve_background_call(epsilon, allowed)
  \/ \E allowed \in BOOLEAN, small \in BOOLEAN, integrated \in BOOLEAN,
        epsilon \in EpsilonValues, allowed_end \in BOOLEAN, y_end \in PhiStates :
       primordial_inflation_evolve_background_step(allowed, small, integrated,
                                                   epsilon, allowed_end, y_end)
  \/ primordial_inflation_one_k_call
  \/ \E small \in BOOLEAN, integrated \in BOOLEAN,
        k_over_aH \in HorizonRatios,
        dlnPdN \in CurvatureVariations \cup {FirstVariation} :
       primordial_inflation_one_k_step(small, integrated, k_over_aH, dlnPdN)

SpecEvolve == InitEvolve /\ [][NextEvolve]_vars

\* C1: on every return of evolve_background and of one_k, with or without an
\* error, the integrator workspace the routine initialised has been cleaned.
C1_IntegratorCleaned == sim.at = "returned" => sim.gi # "initialized"

beyond_a_phi(p) ==
  LET in == primordial_inflation_indices(p) IN
    0 .. in.in_size - 1 \ {in.index_in_a, in.index_in_phi}

\* C18: a backward call of evolve_background for a potential-based model
\* integrates a and phi only: it writes neither y[index_in_dphi] nor any
\* component of the perturbations, at any point of the call.
C18_BackwardIntegratesAPhi ==
  (sim.routine = "evolve_background" /\ sim.direction = "backward"
   /\ is_inflation_V(ppm))
  => sim.written \cap beyond_a_phi(ppm) = {}

\* C18, its case: a backward call for a potential has returned with success
\* after steps of the integrator and the last step, which wrote a and phi
C18_Witness ==
  /\ sim.routine = "evolve_background"
  /\ sim.direction = "backward"
  /\ is_inflation_V(ppm)
  /\ sim.at = "returned"
  /\ sim.status = _SUCCESS_
  /\ sim.x >= 2
  /\ sim.written = {primordial_inflation_indices(ppm).index_in_a,
                    primordial_inflation_indices(ppm).index_in_phi}

\* C5: with check_epsilon, evolve_background succeeds only if every epsilon
\* it computed, at the starting point and after each step, is below one.
C5_EpsilonBelowOne ==
  (sim.routine = "evolve_background" /\ sim.at = "returned"
   /\ sim.check_epsilon /\ sim.status = _SUCCESS_)
  => \A i \in 1 .. Len(sim.epsilon_seen) : Lt(sim.epsilon_seen[i], Pow(1, 0))


-----------------------------------------------------------------------------
\* Binary floating point: a double is modelled by a float of MantissaBits
\* significant bits, held as the integer number of units 2^-GridBits it is
\* worth; every operation rounds its exact result to the nearest float, ties
\* to even, as the doubles of C do.

MantissaBits == 4

GridBits == 10

\* the least power of two s with |n|/(d*s) < 2^MantissaBits
RECURSIVE float_scale(_, _, _)
float_scale(n, d, s) ==
  IF Abs(n) < (2 ^ MantissaBits) * d * s THEN s ELSE float_scale(n, d, 2 * s)

\* the float nearest to the rational n/d (in units), ties to even
float_round(n, d) ==
  LET s == float_scale(n, d, 1)
      q == Abs(n) \div (d * s)
      r == Abs(n) - q * d * s
      up == 2 * r > d * s \/ (2 * r = d * s /\ q % 2 = 1)
  IN  Sgn(n) * (IF up THEN q + 1 ELSE q) * s

\* the double 1.
float_one == 2 ^ GridBits

\* the floats of [0, 1]
UnitFloats == {n \in 0 .. float_one : float_round(n, 1) = n}

float_add(x, y) == float_round(x + y, 1)

float_sub(x, y) == float_round(x - y, 1)

\* what a double that overflows is worth
float_inf == 2 ^ (4 * GridBits)

\* x / y; a nonzero x over 0. is infinite
float_div(x, y) ==
  IF y = 0 THEN Sgn(x) * float_inf ELSE float_round(x * float_one, y)

-----------------------------------------------------------------------------
\* primordial_inflation_find_attractor.  The field derivatives are exact
\* fractions [n, d] with n, d > 0, and so is the precision; or they are
\* doubles [units], and so is the precision.

MaxAttractorMaxit == 4

Double(units) == [units |-> units]

is_double(x) == "units" \in DOMAIN x

\* the slow-roll prediction in phi_0
SlowRollDerivative == Fraction(100, 1)

\* the field derivatives in phi_0 the forward integrations may return
AttractorDerivatives ==
  {Fraction(100, 1), Fraction(105, 1), Fraction(120, 1), Fraction(150, 1)}

AttractorPrecisions == {Fraction(1, 10), Fraction(1, 100)}

\* fabs(new / old - 1.) >= precision
attractor_not_converged(new, old, precision) ==
  IF is_double(new)
  THEN Abs(float_sub(float_div(new.units, old.units), float_one))
         >= precision.units
  ELSE Abs(new.n * old.d - old.n * new.d) * precision.d
         >= precision.n * old.n * new.d

\* new / (precision + 2.)
attractor_first_old(new, precision) ==
  IF is_double(new)
  THEN Double(float_div(new.units, float_add(precision.units, 2 * float_one)))
  ELSE Fraction(new.n * precision.d, new.d * (precision.n + 2 * precision.d))

attractor_exhausted_late(counter, maxit) == counter > maxit

attractor_exhausted(counter, maxit) == counter >= maxit

AttractorCall(precision) ==
  [routine |-> "find_attractor", precision |-> precision, counter |-> 0,
   integrations |-> 0, dphidt_0new |-> SlowRollDerivative,
   dphidt_0old |-> SlowRollDerivative, at |-> "call", status |-> "running",
   error |-> "none"]

PprAttractor(maxit) ==
  [k_per_decade_primordial |-> K_PER_DECADE_PRIMORDIAL_MIN,
   primordial_inflation_attractor_maxit |-> maxit]

\* find_attractor from its first statement to the first test of its loop
primordial_inflation_find_attractor_call(allowed) ==
  /\ sim.routine = "find_attractor"
  /\ sim.at = "call"
  /\ sim' =
       IF primordial_inflation_check_potential(ppm, allowed) = _FAILURE_
       THEN returned(sim, _FAILURE_, "check_potential")
       ELSE LET s == [sim EXCEPT !.dphidt_0old =
                        attractor_first_old(sim.dphidt_0new, sim.precision)]
            IN  IF attractor_not_converged(s.dphidt_0new, s.dphidt_0old,
                                           s.precision)
                THEN [s EXCEPT !.at = "loop"]
                ELSE returned(s, _SUCCESS_, "none")
  /\ UNCHANGED <<module_vars, ppm>>

\* one pass of the loop of find_attractor and the test that follows it:
\* evolved is the status of the forward integration, dphidt its result
primordial_inflation_find_attractor_step(allowed, evolved, dphidt) ==
  /\ sim.routine = "find_attractor"
  /\ sim.at = "loop"
  /\ sim' =
       LET c == [sim EXCEPT !.counter = @ + 1]
           o == [c EXCEPT !.dphidt_0old = sim.dphidt_0new]
           i == [o EXCEPT !.integrations = @ + 1]
           n == [i EXCEPT !.dphidt_0new = dphidt]
       IN  IF attractor_exhausted(c.counter,
                                  ppr.primordial_inflation_attractor_maxit)
           THEN returned(c, _FAILURE_, "attractor")
           ELSE IF primordial_inflation_check_potential(ppm, allowed)
                     = _FAILURE_
           THEN returned(o, _FAILURE_, "check_potential")
           ELSE IF ~evolved THEN returned(i, _FAILURE_, "evolve_background")
           ELSE IF attractor_not_converged(n.dphidt_0new, n.dphidt_0old,
                                           n.precision)
           THEN n
           ELSE returned(n, _SUCCESS_, "none")
  /\ UNCHANGED <<module_vars, ppm>>

InitAttractor ==
  /\ SimulatorModule
  /\ ppr \in {PprAttractor(m) : m \in 1 .. MaxAttractorMaxit}
  /\ ppm \in {PpmInflation(t, "polynomial") :
                t \in {"inflation_V", "inflation_V_end"}}
  /\ sim \in {AttractorCall(precision) : precision \in AttractorPrecisions}

NextAttractor ==
  \/ \E allowed \in BOOLEAN : primordial_inflation_find_attractor_call(allowed)
  \/ \E allowed \in BOOLEAN, evolved \in BOOLEAN,
        dphidt \in AttractorDerivatives :
       primordial_inflation_find_attractor_step(allowed, evolved, dphidt)

\* the routine runs to its end: a pass that can be taken is taken
SpecAttractor ==
  InitAttractor /\ [][NextAttractor]_vars /\ WF_vars(NextAttractor)

\* The same routine on doubles.  The slow-roll prediction is positive, since
\* check_potential lets only V > 0 and dV < 0 through, and the integrations
\* return nonzero derivatives.

\* the double nearest to n/d
double_of(n, d) == Double(float_round(n * float_one, d))

\* ppr->primordial_inflation_attractor_precision_pivot and _initial
DoublePrecisions == {double_of(n, 8) : n \in {0, 1, 8, 64, 208, 432}}

DoubleSlowRoll == {double_of(n, 1) : n \in {1, 9, 15}}

DoubleDerivatives == {double_of(n, 1) : n \in {1, 9, 10, 15}}

\* the call of find_attractor with the slow-roll prediction of a potential
AttractorCallOf(precision, dphidt) ==
  [AttractorCall(precision) EXCEPT !.dphidt_0new = dphidt,
                                   !.dphidt_0old = dphidt]

InitAttractorDouble ==
  /\ SimulatorModule
  /\ ppr \in {PprAttractor(m) : m \in 1 .. MaxAttractorMaxit}
  /\ ppm \in {PpmInflation(t, "polynomial") :
                t \in {"inflation_V", "inflation_V_end"}}
  /\ sim \in {AttractorCallOf(precision, dphidt) :
                precision \in DoublePrecisions, dphidt \in DoubleSlowRoll}

NextAttractorDouble ==
  \/ \E allowed \in BOOLEAN : primordial_inflation_find_attractor_call(allowed)
  \/ \E allowed \in BOOLEAN, evolved \in BOOLEAN,
        dphidt \in DoubleDerivatives :
       primordial_inflation_find_attractor_step(allowed, evolved, dphidt)

SpecAttractorDouble == InitAttractorDouble /\ [][NextAttractorDouble]_vars

\* C28: for any precision >= 0 find_attractor executes its shooting loop at
\* least once: a successful return has made at least one forward integration
\* and its last two iterates satisfy |new/old - 1| < precision, and with
\* attractor_maxit <= 1 the routine always returns the error.
C28_ShootsAtLeastOnce ==
  (sim.routine = "find_attractor" /\ sim.at = "returned") =>
    /\ sim.status = _SUCCESS_ =>
         /\ sim.integrations >= 1
         /\ ~attractor_not_converged(sim.dphidt_0new, sim.dphidt_0old,
                                     sim.precision)
    /\ ppr.primordial_inflation_attractor_maxit <= 1 => sim.status = _FAILURE_

\* the counter and the number of forward integrations stay under the cap,
\* and the counter at the cap is the attractor-not-found error
attractor_capped ==
  /\ sim.integrations < ppr.primordial_inflation_attractor_maxit
  /\ sim.counter <= ppr.primordial_inflation_attractor_maxit
  /\ sim.counter = ppr.primordial_inflation_attractor_maxit
       => /\ sim.at = "returned"
          /\ sim.status = _FAILURE_
          /\ sim.error = "attractor"

\* C6: find_attractor returns; it makes fewer than attractor_maxit forward
\* integrations, and its counter reaching attractor_maxit is at once the
\* attractor-not-found error.
C6_AttractorTerminates == [](attractor_capped) /\ <>(sim.at = "returned")

C6_Witness ==
  /\ sim.at = "returned"
  /\ sim.error = "attractor"
  /\ sim.counter = ppr.primordial_inflation_attractor_maxit
  /\ sim.integrations = sim.counter - 1
  /\ sim.integrations >= 2


-----------------------------------------------------------------------------
\* primordial_inflation_spectra, as primordial_inflation_solve_inflation runs
\* it.  A background variable is named by where its value comes from: "y_ini",
\* "pivot" (the forward evolution to phi_pivot that closed the search of
\* phi_ini) or <<"k", i>> (the end of the pass of wavenumber i).

MaxSpectraK == 4

\* the curvature and tensor spectra a pass may find
Curvatures == {Pow(1, -4), Pow(1, -6), Zero, Pow(-1, -4)}

Tensors == {Pow(1, -8), Zero}

\* y_ini and y as solve_inflation hands them over
SpectraCall(type) ==
  [routine |-> "spectra", index_k |-> 0,
   y_ini |-> [a |-> "y_ini", phi |-> "y_ini", dphi |-> "y_ini"],
   y |-> IF type = "inflation_V"
         THEN [a |-> "y_ini", phi |-> "y_ini", dphi |-> "pivot"]
         ELSE [a |-> "y_ini", phi |-> "y_ini", dphi |-> "y_ini"],
   started |-> <<>>, computed |-> <<>>, writes |-> <<>>, at |-> "loop", status |-> "running",
   error |-> "none"]

\* the table as primordial_indices allocated it: lnpk[index_md][index_k],
\* one pair per mode, nothing written yet
PpmSpectra(type, lnk_size) ==
  [primordial_spec_type |-> type, potential |-> "polynomial",
   lnk_size |-> lnk_size,
   lnpk |-> [index_md \in {ppt_index_md_scalars, 1} |->
               [index_k \in 0 .. lnk_size - 1 |-> Uninit]],
   is_non_zero |-> [index_md \in {ppt_index_md_scalars, 1} |->
                      [index_ic1_ic2 \in {0} |-> FALSE]]]

\* the background part of y at the start of the pass of a wavenumber
spectra_reset(p, y, y_ini) ==
  LET r == [y EXCEPT !.a = y_ini.a, !.phi = y_ini.phi] IN
    IF p.primordial_spec_type = "inflation_V"
       /\ p.primordial_spec_type = "inflation_V_end"
    THEN [r EXCEPT !.dphi = y_ini.dphi]
    ELSE r

\* y once the background and the perturbations of wavenumber i are evolved:
\* the field momentum is a variable of the potential-based models only
spectra_evolved(p, y, i) ==
  [a |-> <<"k", i>>, phi |-> <<"k", i>>,
   dphi |-> IF is_inflation_V(p) THEN <<"k", i>> ELSE y.dphi]

lnpk_offset_first(index_k) == 0

negative_only(power) == Lt(power, Zero)

\* class_test(curvature<=0., ...) and class_test(tensors<=0., ...)
negative_spectrum(power) == Le(power, Zero)

\* the entry of a wavenumber in lnpk[index_md]: one pair per mode
lnpk_offset(index_k) == index_k

\* the pass of one wavenumber, and the end of the routine after the last
primordial_inflation_spectra_pass(evolved, integrated, curvature, tensors) ==
  /\ sim.routine = "spectra"
  /\ sim.at = "loop"
  /\ LET y0 == spectra_reset(ppm, sim.y, sim.y_ini)
         s0 == [sim EXCEPT !.y = y0, !.started = Append(@, y0)]
         e1 == [s0 EXCEPT !.y = spectra_evolved(ppm, y0, sim.index_k)]
         s1 == [e1 EXCEPT !.computed = Append(@, [curvature |-> curvature,
                                                  tensors |-> tensors])]
     IN  IF ~evolved
         THEN /\ sim' = returned(s0, _FAILURE_, "evolve_background")
              /\ ppm' = ppm
         ELSE IF ~integrated
         THEN /\ sim' = returned(e1, _FAILURE_, "one_k") /\ ppm' = ppm
         ELSE IF negative_spectrum(curvature)
         THEN /\ sim' = returned(s1, _FAILURE_, "curvature") /\ ppm' = ppm
         ELSE IF negative_spectrum(tensors)
         THEN /\ sim' = returned(s1, _FAILURE_, "tensors") /\ ppm' = ppm
         ELSE LET q == [ppm EXCEPT
                          !.lnpk[ppt_index_md_scalars][lnpk_offset(sim.index_k)] =
                             Log(curvature),
                          !.lnpk[ppt_index_md_tensors(ppt)][lnpk_offset(sim.index_k)] =
                             Log(tensors)]
                  s2 == [s1 EXCEPT !.index_k = @ + 1, !.writes = @ \o
                          <<[index_md |-> ppt_index_md_scalars,
                             index_k |-> lnpk_offset(sim.index_k)],
                            [index_md |-> ppt_index_md_tensors(ppt),
                             index_k |-> lnpk_offset(sim.index_k)]>>]
              IN  IF s2.index_k < ppm.lnk_size
                  THEN /\ sim' = s2 /\ ppm' = q
                  ELSE /\ sim' = returned(s2, _SUCCESS_, "none")
                       /\ ppm' = [q EXCEPT
                            !.is_non_zero[ppt_index_md_scalars]
                                         [ppt_index_ic_ad] = TRUE,
                            !.is_non_zero[ppt_index_md_tensors(ppt)]
                                         [ppt_index_ic_ten] = TRUE]
  /\ UNCHANGED module_vars

InitSpectra ==
  /\ SimulatorModule
  /\ ppr = Ppr(K_PER_DECADE_PRIMORDIAL_MIN)
  /\ \E type \in {"inflation_V", "inflation_H"}, n \in 2 .. MaxSpectraK :
       /\ ppm = PpmSpectra(type, n)
       /\ sim = SpectraCall(type)

NextSpectra ==
  \E evolved \in BOOLEAN, integrated \in BOOLEAN, curvature \in Curvatures,
     tensors \in Tensors :
    primordial_inflation_spectra_pass(evolved, integrated, curvature, tensors)

SpecSpectra == InitSpectra /\ [][NextSpectra]_vars

\* the background variables of the model: the field momentum is one of them
\* for the potential-based models only
background_of(p, y) ==
  IF is_inflation_V(p) THEN <<y.a, y.phi, y.dphi>> ELSE <<y.a, y.phi>>

\* C2: the pass behind every stored value started from the whole background
\* state of y_ini, whatever wavenumbers were processed before it.
C2_PassStartsFromYIni ==
  sim.routine = "spectra"
  => \A i \in 1 .. Len(sim.started) :
       ppm.lnpk[ppt_index_md_scalars][i - 1] # Uninit
       => background_of(ppm, sim.started[i]) = background_of(ppm, sim.y_ini)


-----------------------------------------------------------------------------
\* The packing of the pairs of initial conditions: the double loop of
\* primordial_init over index_ic1 <= index_ic2, writing one row of the table
\* of a mode with ic_size initial conditions.

MaxIcSize == 8

PackingCall(ic_size) ==
  [routine |-> "packing", ic_size |-> ic_size,
   ic_ic_size |-> ic_ic_size_of(ic_size), index_ic1 |-> 0, index_ic2 |-> 0,
   written |-> {}, at |-> "loop", status |-> "running", error |-> "none"]

\* one pass of the inner loop: the entry of the pair is written at its offset
packing_pass ==
  /\ sim.routine = "packing"
  /\ sim.at = "loop"
  /\ LET index_ic1_ic2 == index_symmetric_matrix(sim.index_ic1, sim.index_ic2,
                                                 sim.ic_size)
         w == [sim EXCEPT !.written = @ \cup
                 {[index_ic1 |-> sim.index_ic1, index_ic2 |-> sim.index_ic2,
                   index_ic1_ic2 |-> index_ic1_ic2]}]
     IN  sim' = IF sim.index_ic2 + 1 < sim.ic_size
                THEN [w EXCEPT !.index_ic2 = @ + 1]
                ELSE IF sim.index_ic1 + 1 < sim.ic_size
                THEN [w EXCEPT !.index_ic1 = @ + 1,
                               !.index_ic2 = sim.index_ic1 + 1]
                ELSE returned(w, _SUCCESS_, "none")
  /\ UNCHANGED <<module_vars, ppm>>

InitPacking ==
  /\ SimulatorModule
  /\ ppr = Ppr(K_PER_DECADE_PRIMORDIAL_MIN)
  /\ ppm = Ppm("analytic_Pk")
  /\ sim \in {PackingCall(n) : n \in 1 .. MaxIcSize}

NextPacking == packing_pass

SpecPacking == InitPacking /\ [][NextPacking]_vars

\* C11: the packing sends distinct pairs i <= j to distinct offsets, every
\* offset is below ic_ic_size = n(n+1)/2, and the pairs fill the whole row.
C11_PackingBijective ==
  sim.routine = "packing"
  => /\ \A w \in sim.written : w.index_ic1_ic2 \in 0 .. sim.ic_ic_size - 1
     /\ \A v, w \in sim.written : v.index_ic1_ic2 = w.index_ic1_ic2 => v = w
     /\ sim.at = "returned"
          => {w.index_ic1_ic2 : w \in sim.written} = 0 .. sim.ic_ic_size - 1

C11_Witness ==
  /\ sim.routine = "packing"
  /\ sim.at = "returned"
  /\ sim.ic_size >= 3
  /\ Cardinality(sim.written) = ic_ic_size_of(sim.ic_size)


-----------------------------------------------------------------------------
\* The analytic spectra of a pair of correlated initial conditions.

\* a successful primordial_init of adiabatic and cdi scalars with a non-zero
\* correlation: the pair is (ad, cdi), stored at offset 1
correlated_pair_ready ==
  /\ pc = "ready"
  /\ ppm.primordial_spec_type = "analytic_Pk"
  /\ ppt.has_perturbations /\ ppt.has_scalars /\ ppt.has_cdi
  /\ ppm.c_ad_cdi # Zero

index_ad_cdi == index_symmetric_matrix(ppt_index_ic_ad, ppt_index_ic_cdi, 2)

\* c * sqrt(P_ii(k) * P_jj(k)) for the pair (ad, cdi)
correlated_geometric_mean(k) ==
  Mul(ppm.c_ad_cdi,
      Sqrt(Mul(primordial_analytic_spectrum(ppm, ppt_index_md_scalars,
                 index_symmetric_matrix(ppt_index_ic_ad, ppt_index_ic_ad, 2), k),
               primordial_analytic_spectrum(ppm, ppt_index_md_scalars,
                 index_symmetric_matrix(ppt_index_ic_cdi, ppt_index_ic_cdi, 2), k))))

\* (k/k_pivot)^(n_ad_cdi + alpha_ad_cdi/2 * ln(k/k_pivot))
cross_scaling(k) ==
  LET L == LnOf(k) - LnOf(ppm.k_pivot) IN
    Exp(Lin(IntOf(ppm.n_ad_cdi) * L + (IntOf(ppm.alpha_ad_cdi) * L * L) \div 2))

\* C12 as stated: P_ij(k) = c * sqrt(P_ii(k) * P_jj(k)) at every k, whatever
\* the cross tilt and the cross running.
C12_CrossIsGeometricMean ==
  correlated_pair_ready
  => \A n \in QueryLnk :
       primordial_analytic_spectrum(ppm, ppt_index_md_scalars, index_ad_cdi,
                                    Pow(1, n))
         = correlated_geometric_mean(Pow(1, n))

\* C12 amended: P_ij(k) is c * sqrt(P_ii(k) * P_jj(k)) times the power law of
\* the cross tilt and cross running, so the two are equal at k_pivot, and at
\* every k when the cross tilt and the cross running are zero.
C12_CrossIsScaledGeometricMean ==
  correlated_pair_ready
  => \A n \in QueryLnk :
       /\ primordial_analytic_spectrum(ppm, ppt_index_md_scalars, index_ad_cdi,
                                       Pow(1, n))
            = Mul(correlated_geometric_mean(Pow(1, n)), cross_scaling(Pow(1, n)))
       /\ (Pow(1, n) = ppm.k_pivot
           \/ (ppm.n_ad_cdi = Zero /\ ppm.alpha_ad_cdi = Zero))
          => primordial_analytic_spectrum(ppm, ppt_index_md_scalars,
                                          index_ad_cdi, Pow(1, n))
               = correlated_geometric_mean(Pow(1, n))

C12_Witness ==
  /\ correlated_pair_ready
  /\ ppm.n_ad_cdi # Zero
  /\ ppm.alpha_ad_cdi # Zero
  /\ Lt(ppm.c_ad_cdi, Zero)


\* the table of an analytic spectrum after a successful primordial_init
analytic_table_ready ==
  /\ pc = "ready"
  /\ ppt.has_perturbations
  /\ ppm.primordial_spec_type = "analytic_Pk"

\* the off-diagonal entries of the table: mode, wavenumber, pair
off_diagonal_entries ==
  {e \in (0 .. ppm.md_size - 1) \X (0 .. ppm.lnk_size - 1) \X {0, 1, 2} :
     /\ e[3] < ppm.ic_ic_size[e[1]]
     /\ ~IsDiagonal(ppm, e[1], e[3])}

stored_entry(e) == ppm.lnpk[e[1]][e[2] * ppm.ic_ic_size[e[1]] + e[3]]

\* P_ij/sqrt(P_ii*P_jj) at the wavenumber of the entry, 0. for no correlation
ratio_of_entry(e) ==
  IF ppm.is_non_zero[e[1]][e[3]] = TRUE
  THEN correlation_angle(ppm, e[1], e[3], Exp(ppm.lnk[e[2]]))
  ELSE Zero

\* C13: every off-diagonal value of the table of an analytic spectrum is in
\* [-1,1]: a ratio above 1 is stored as 1, one below -1 as -1, any other as it
\* is; and an input that passes the tests of the coefficients is never
\* refused for its ratios.
C13_RatioClamped ==
  /\ analytic_table_ready
     => \A e \in off_diagonal_entries :
          /\ Le(Lin(-1), stored_entry(e)) /\ Le(stored_entry(e), Lin(1))
          /\ stored_entry(e) =
               IF Gt(ratio_of_entry(e), Lin(1)) THEN Lin(1)
               ELSE IF Lt(ratio_of_entry(e), Lin(-1)) THEN Lin(-1)
               ELSE ratio_of_entry(e)
  /\ ( /\ pc = "failed"
       /\ ppm.primordial_spec_type = "analytic_Pk" )
     => init_rejects_input(ppt, ppr, ppm) \/ analytic_init_fails(ppt, ppm)

C13_Witness ==
  /\ analytic_table_ready
  /\ \E e \in off_diagonal_entries :
       Gt(ratio_of_entry(e), Lin(1)) /\ stored_entry(e) = Lin(1)
  /\ \E e \in off_diagonal_entries :
       /\ Lt(ratio_of_entry(e), Lin(1)) /\ Gt(ratio_of_entry(e), Zero)
       /\ stored_entry(e) = ratio_of_entry(e)


-----------------------------------------------------------------------------
\* The writes of primordial_inflation_spectra into the table.

\* the writes into lnpk[index_md], in the order they were made
writes_of(index_md) ==
  SelectSeq(sim.writes, LAMBDA w : w.index_md = index_md)

\* the writes so far are those of wavenumbers 0, 1, 2, ... in this order
written_in_order(index_md) ==
  \A n \in 1 .. Len(writes_of(index_md)) : writes_of(index_md)[n].index_k = n - 1

\* an entry that holds a value keeps it
entries_kept ==
  \A index_md \in DOMAIN ppm.lnpk : \A index_k \in DOMAIN ppm.lnpk[index_md] :
    ppm.lnpk[index_md][index_k] # Uninit
    => ppm'.lnpk[index_md][index_k] = ppm.lnpk[index_md][index_k]

\* C14: primordial_inflation_spectra writes lnpk[scalars][i] and
\* lnpk[tensors][i] once each, in increasing order of i, and never writes an
\* entry again; at a successful return every entry has been written.
C14_WrittenOnceInOrder ==
  /\ [](sim.routine = "spectra"
        => /\ written_in_order(ppt_index_md_scalars)
           /\ written_in_order(ppt_index_md_tensors(ppt))
           /\ (sim.at = "returned" /\ sim.status = _SUCCESS_)
              => /\ Len(writes_of(ppt_index_md_scalars)) = ppm.lnk_size
                 /\ Len(writes_of(ppt_index_md_tensors(ppt))) = ppm.lnk_size)
  /\ [][sim.routine = "spectra" => entries_kept]_vars

C14_Witness ==
  /\ sim.routine = "spectra"
  /\ sim.at = "returned"
  /\ sim.status = _SUCCESS_
  /\ Len(sim.writes) = 2 * ppm.lnk_size
  /\ ppm.lnk_size >= 3


\* the powers found for wavenumber i are both strictly positive
positive_powers(i) ==
  Gt(sim.computed[i + 1].curvature, Zero) /\ Gt(sim.computed[i + 1].tensors, Zero)

\* both entries of wavenumber i hold the logarithms of the powers found for it
logarithms_stored(i) ==
  /\ ppm.lnpk[ppt_index_md_scalars][i] = Log(sim.computed[i + 1].curvature)
  /\ ppm.lnpk[ppt_index_md_tensors(ppt)][i] = Log(sim.computed[i + 1].tensors)

nothing_stored(i) ==
  /\ ppm.lnpk[ppt_index_md_scalars][i] = Uninit
  /\ ppm.lnpk[ppt_index_md_tensors(ppt)][i] = Uninit

-----------------------------------------------------------------------------
\* primordial_inflation_solve_inflation.  The routines it calls are followed
\* through their status and the values they hand back; the numbers are
\* powers of the base of the grid.

MaxPhiIniMaxit == 4

\* H at a field value, as find_attractor or check_hubble return it
HubbleValues == {Pow(1, -2), Pow(1, -3), Pow(1, -4)}

\* y[index_in_a] once the forward integration from a = 1 has reached phi_pivot
ScaleFactors == {Pow(1, 1), Pow(1, 2), Pow(1, 3)}

\* field values a backward integration ends on
FieldValues == {Pow(-1, 0), Pow(-1, 1)}

\* dphi/dt on the attractor
FieldDerivatives == {Pow(1, -3)}

PprSolve(maxit) ==
  [k_per_decade_primordial |-> K_PER_DECADE_PRIMORDIAL_MIN,
   primordial_inflation_phi_ini_maxit |-> maxit,
   primordial_inflation_ratio_min |-> Pow(1, 2)]

PpmSolve(type) ==
  [primordial_spec_type |-> type, potential |-> "polynomial",
   k_pivot |-> Pow(1, 0), phi_pivot |-> Zero,
   lnk |-> [index_k \in 0 .. 1 |-> Lin(4 * index_k - 2)]]

SolveBuffers == {"y", "y_ini", "dy"}

SolveCall ==
  [routine |-> "solve_inflation", at |-> "call",
   buffers |-> [b \in SolveBuffers |-> "unallocated"],
   y |-> [a |-> Uninit, phi |-> Uninit, dphi |-> Uninit],
   y_ini |-> [a |-> Uninit, phi |-> Uninit, dphi |-> Uninit],
   counter |-> 0, passes |-> 0, phi_tries |-> <<>>, attractor_at |-> <<>>,
   a_pivot |-> Uninit, aH_ini |-> Uninit, a_try |-> Uninit,
   H_try |-> Uninit, dphidt_pivot |-> Uninit,
   y_forward |-> [a |-> Uninit, phi |-> Uninit, dphi |-> Uninit],
   status |-> "running", error |-> "none"]

\* free(y);free(y_ini);free(dy)
solve_free(s) == [s EXCEPT !.buffers = [b \in SolveBuffers |-> "freed"]]

\* an error return that runs free(y);free(y_ini);free(dy) first
solve_except(s, error) == returned(solve_free(s), _FAILURE_, error)

phi_ini_exhausted_late(counter, maxit) == counter > maxit

\* counter >= ppr->primordial_inflation_phi_ini_maxit
phi_ini_exhausted(counter, maxit) == counter >= maxit

\* the condition of the do ... while: a_try*H_try > aH_ini
phi_ini_too_late(a_try, H_try, aH_ini) == Gt(Mul(a_try, H_try), aH_ini)

\* what find_attractor leaves in the y it is handed: the end of its last
\* integration from a = 1 to phi_0, where y[index_in_dphi]/y[index_in_a] is
\* the dphidt_0 it returns; a is the scale factor that integration ended on
find_attractor_leaves(phi_0, dphidt_0, a) ==
  [a |-> a, phi |-> phi_0, dphi |-> Mul(a, dphidt_0)]

\* if ((type == inflation_V) && (type == inflation_V_end))
sets_dphi_at_pivot(p) ==
  /\ p.primordial_spec_type = "inflation_V"
  /\ p.primordial_spec_type = "inflation_V_end"

\* solve_inflation from its first statement to the entry of the search of
\* the initial time (inflation_V) or to the call of the spectra (inflation_H).
\* pivot: what find_attractor (H, dphidt, a) or check_hubble (H) hands back
solve_inflation_begin(p, r, s, found, allowed, pivot, evolved, back, y_back) ==
  LET b == [s EXCEPT !.buffers = [w \in SolveBuffers |-> "allocated"]]
      m == IF is_inflation_V(p) /\ allowed
           THEN [b EXCEPT !.dphidt_pivot = pivot.dphidt,
                          !.y = find_attractor_leaves(p.phi_pivot,
                                                      pivot.dphidt, pivot.a)]
           ELSE b
      H_pivot == pivot.H
      a_pivot == Div(p.k_pivot, H_pivot)
      k_min == Exp(p.lnk[0])
      c == [m EXCEPT !.a_pivot = a_pivot,
                     !.y = [@ EXCEPT !.a = a_pivot, !.phi = p.phi_pivot,
                                     !.dphi = IF sets_dphi_at_pivot(p)
                                              THEN Mul(a_pivot, m.dphidt_pivot)
                                              ELSE @]]
      f == [c EXCEPT !.y_forward = c.y]
      i == [f EXCEPT !.aH_ini = Div(k_min, r.primordial_inflation_ratio_min)]
  IN  IF p.primordial_spec_type = "inflation_V_end"
      THEN IF ~found THEN returned(b, _FAILURE_, "find_phi_pivot2")
           ELSE returned(b, _FAILURE_, "under development")
      ELSE IF is_inflation_V(p) /\ ~allowed
      THEN solve_except(m, "find_attractor")
      ELSE IF p.primordial_spec_type = "inflation_H"
              /\ primordial_inflation_check_hubble(p, allowed) = _FAILURE_
      THEN solve_except(m, "check_hubble")
      ELSE IF ~is_inflation_V(p) /\ p.primordial_spec_type # "inflation_H"
      THEN solve_except(m, "type")
      ELSE IF ~evolved THEN solve_except(f, "evolve_background")
      ELSE IF is_inflation_V(p) THEN [i EXCEPT !.counter = 0, !.at = "phi_ini"]
      ELSE IF ~back THEN solve_except(i, "evolve_background")
      ELSE [i EXCEPT !.y = [@ EXCEPT !.a = y_back.a, !.phi = y_back.phi],
                     !.y_ini = [@ EXCEPT !.a = y_back.a, !.phi = y_back.phi],
                     !.at = "spectra"]

\* one pass of the do ... while of the search, and the three assignments of
\* y_ini that follow the loop when the pass was the last.  back, attractor,
\* evolved: the status of the three calls; phi_try, H_try, dphidt_try, a_end:
\* what they hand back
solve_inflation_phi_ini(r, s, back, phi_try, attractor, H_try, dphidt_try, evolved, a_end) ==
  LET c == [s EXCEPT !.counter = @ + 1]
      t == [c EXCEPT !.phi_tries = Append(@, phi_try)]
      h == [t EXCEPT !.attractor_at = Append(@, phi_try), !.H_try = H_try]
      n == [h EXCEPT !.y = [a |-> Lin(1), phi |-> phi_try,
                            dphi |-> Mul(Lin(1), dphidt_try)]]
      a_try == Div(s.a_pivot, a_end)
      e == [n EXCEPT !.a_try = a_try, !.passes = @ + 1,
                     !.y = [@ EXCEPT !.a = a_try, !.phi = phi_try]]
  IN  IF phi_ini_exhausted(c.counter, r.primordial_inflation_phi_ini_maxit)
      THEN solve_except(c, "phi_ini")
      ELSE IF ~back THEN solve_except(c, "evolve_background")
      ELSE IF ~attractor THEN solve_except(h, "find_attractor")
      ELSE IF ~evolved THEN solve_except(n, "evolve_background")
      ELSE IF phi_ini_too_late(e.a_try, e.H_try, e.aH_ini) THEN e
      ELSE [e EXCEPT !.y_ini = [a |-> a_try, phi |-> phi_try,
                                dphi |-> Mul(a_try, dphidt_try)],
                     !.at = "spectra"]

\* solve_inflation from the call of the spectra to its last statement
solve_inflation_end(p, s, spectra, phi_min, phi_max) ==
  LET y == [s EXCEPT !.y = [a |-> s.y_ini.a, phi |-> s.y_ini.phi,
                            dphi |-> IF is_inflation_V(p) THEN s.y_ini.dphi
                                     ELSE @.dphi]]
  IN  IF ~spectra THEN solve_except(s, "spectra")
      ELSE IF ~phi_min THEN solve_except(y, "evolve_phi_min")
      ELSE IF ~phi_max THEN solve_except(y, "evolve_phi_max")
      ELSE returned(solve_free(y), _SUCCESS_, "none")

primordial_inflation_solve_inflation_call(found, allowed, pivot, evolved, back, y_back) ==
  /\ sim.routine = "solve_inflation"
  /\ sim.at = "call"
  /\ sim' = solve_inflation_begin(ppm, ppr, sim, found, allowed, pivot,
                                  evolved, back, y_back)
  /\ UNCHANGED <<module_vars, ppm>>

primordial_inflation_solve_inflation_search(back, phi_try, attractor, H_try, dphidt_try, evolved, a_end) ==
  /\ sim.routine = "solve_inflation"
  /\ sim.at = "phi_ini"
  /\ sim' = solve_inflation_phi_ini(ppr, sim, back, phi_try, attractor, H_try,
                                    dphidt_try, evolved, a_end)
  /\ UNCHANGED <<module_vars, ppm>>

primordial_inflation_solve_inflation_finish(spectra, phi_min, phi_max) ==
  /\ sim.routine = "solve_inflation"
  /\ sim.at = "spectra"
  /\ sim' = solve_inflation_end(ppm, sim, spectra, phi_min, phi_max)
  /\ UNCHANGED <<module_vars, ppm>>

InitSolve ==
  /\ SimulatorModule
  /\ ppr \in {PprSolve(maxit) : maxit \in 1 .. MaxPhiIniMaxit}
  /\ ppm \in {PpmSolve(type) : type \in InflationTypes}
  /\ sim = SolveCall

NextSolve ==
  \/ \E found, allowed, evolved, back \in BOOLEAN :
       \E H_pivot \in HubbleValues, dphidt_pivot \in FieldDerivatives,
          a_0 \in ScaleFactors, a \in ScaleFactors, phi \in FieldValues :
         primordial_inflation_solve_inflation_call(
           found, allowed, [H |-> H_pivot, dphidt |-> dphidt_pivot, a |-> a_0],
           evolved, back, [a |-> a, phi |-> phi])
  \/ \E back, attractor, evolved \in BOOLEAN :
       \E phi_try \in FieldValues, H_try \in HubbleValues,
          dphidt_try \in FieldDerivatives, a_end \in ScaleFactors :
         primordial_inflation_solve_inflation_search(
           back, phi_try, attractor, H_try, dphidt_try, evolved, a_end)
  \/ \E spectra, phi_min, phi_max \in BOOLEAN :
       primordial_inflation_solve_inflation_finish(spectra, phi_min, phi_max)

SpecSolve == InitSolve /\ [][NextSolve]_vars

\* the routine that allocated them has returned and a work buffer of its own
\* is still allocated, or the process it spawned is still open
solve_buffers_kept ==
  /\ sim.routine = "solve_inflation"
  /\ sim.at = "returned"
  /\ \E b \in SolveBuffers : sim.buffers[b] = "allocated"

external_buffers_kept ==
  /\ ext.status \in {_SUCCESS_, _FAILURE_}
  /\ \/ \E a \in {"k", "pks", "pkt"} : heap[a] = "allocated"
     \/ ext.process = "open"

\* C16: a routine that allocates work buffers of its own has released them
\* when it returns, on every path: solve_inflation has freed y, y_ini and dy
\* for every type, and primordial_external_spectrum_init has freed k, pks and
\* pkt and closed the process it spawned.
C16_BuffersReleased == ~solve_buffers_kept /\ ~external_buffers_kept

\* the search of the initial time is over and the routine went on
phi_ini_found ==
  /\ is_inflation_V(ppm)
  /\ \/ sim.at = "spectra"
     \/ /\ sim.at = "returned"
        /\ sim.error \in {"spectra", "evolve_phi_min", "evolve_phi_max", "none"}

forward_check_started ==
  /\ sim.routine = "solve_inflation"
  /\ is_inflation_V(ppm)
  /\ sim.y_forward.a # Uninit

\* C27: for inflation_V, solve_inflation starts the forward check of the
\* duration of inflation from the pivot with the complete state of the
\* attractor: y[index_in_a] = a_pivot, y[index_in_phi] = phi_pivot and
\* y[index_in_dphi] = a_pivot*dphidt_pivot.
C27_ForwardCheckFromPivot ==
  forward_check_started =>
    /\ sim.y_forward.a = sim.a_pivot
    /\ sim.y_forward.phi = ppm.phi_pivot
    /\ sim.y_forward.dphi = Mul(sim.a_pivot, sim.dphidt_pivot)

-----------------------------------------------------------------------------
\* dEdtdV_DM_ann of hyrec's energy_injection.c.  A redshift z is held as the
\* value of 1 + z, a power of the base b of the grid; logarithms are counted
\* in units of ln b and ann_var in units of 1/ln b, so that the exponential
\* of var * log^2 is again a power of b.  The rate is kept as the list of
\* the terms of the sum pann_tot, each with the factor that multiplies it.

MaxZp1 == 4

\* 10537.4, to the nearest power of b
H100Prefactor == Pow(1, 32)

\* 1e-9
PerGeV == Pow(1, -9 * Ln10)

InjParams(pann, pann_halo, ann_var) ==
  [pann |-> pann, pann_halo |-> pann_halo, ann_var |-> ann_var,
   ann_z |-> Pow(1, 2), ann_zmax |-> Pow(1, 3), ann_zmin |-> Pow(1, 1),
   ann_z_halo |-> Pow(1, 2), odmh2 |-> Pow(1, -7)]

square(x) == Mul(x, x)

cube(x) == Mul(Mul(x, x), x)

\* the parametrized variation of pann with redshift
pann_variation(zp1, params) ==
  LET var == params.ann_var
      zp1_ann == params.ann_z
      zp1_max == params.ann_zmax
      zp1_min == params.ann_zmin
      at_ann == Neg(square(Log(Div(zp1_ann, zp1_max))))
  IN  IF Gt(zp1, zp1_max) THEN Exp(Mul(var, at_ann))
      ELSE IF Gt(zp1, zp1_min)
      THEN Exp(Mul(var, Add(at_ann, square(Log(Div(zp1, zp1_max))))))
      ELSE Exp(Mul(var, Add(at_ann, square(Log(Div(zp1_min, zp1_max))))))

\* pann_tot after the block of the smooth background, without its last line
smooth_background_once(zp1, params) ==
  IF Gt(params.pann, Zero)
  THEN <<[term |-> "smooth", erfc_of |-> Zero,
          factor |-> Mul(params.pann, pann_variation(zp1, params))]>>
  ELSE <<>>

\* pann_tot after the block of the smooth background
smooth_background(zp1, params) ==
  IF Gt(params.pann, Zero)
  THEN <<[term |-> "smooth", erfc_of |-> Zero,
          factor |-> Mul(Mul(params.pann, pann_variation(zp1, params)),
                         cube(zp1))]>>
  ELSE <<>>

\* what the block of the haloes adds to pann_tot: pann_halo times the fit of
\* erfc in u_min = zp1/zp1_halo, which is kept as a symbol
haloes(zp1, params) ==
  IF Gt(params.pann_halo, Zero)
  THEN <<[term |-> "halo", erfc_of |-> Div(zp1, params.ann_z_halo),
          factor |-> params.pann_halo]>>
  ELSE <<>>

\* 3 H100^2/(8 Pi G) c^2 Omega_dm^2 in eV/cm^3, times 1e-9
critical_density(params) ==
  Mul(square(Mul(H100Prefactor, params.odmh2)), PerGeV)

\* the sum pann_tot times x
scaled(pann_tot, x) ==
  [i \in DOMAIN pann_tot |-> [pann_tot[i] EXCEPT !.factor = Mul(x, @)]]

dEdtdV_DM_ann(zp1, params) ==
  LET pann_tot == smooth_background(zp1, params) \o haloes(zp1, params) IN
    scaled(pann_tot, Mul(critical_density(params), cube(zp1)))

InjectionCall(zp1, params) ==
  [routine |-> "dEdtdV_DM_ann", zp1 |-> zp1, params |-> params,
   at |-> "call", rate |-> <<>>]

dEdtdV_DM_ann_call ==
  /\ sim.routine = "dEdtdV_DM_ann"
  /\ sim.at = "call"
  /\ sim' = [sim EXCEPT !.rate = dEdtdV_DM_ann(sim.zp1, sim.params),
                        !.at = "returned"]
  /\ UNCHANGED <<module_vars, ppm>>

InitInjection ==
  /\ SimulatorModule
  /\ ppr = Ppr(K_PER_DECADE_PRIMORDIAL_MIN)
  /\ ppm = PpmInflation("inflation_V", "polynomial")
  /\ sim \in {InjectionCall(Pow(1, z), InjParams(pann, pann_halo, var)) :
                z \in 0 .. MaxZp1,
                pann \in {Zero, Pow(1, -2), Pow(1, -3)},
                pann_halo \in {Zero, Pow(1, -1), Pow(1, -4)},
                var \in {Zero, Lin(1)}}

NextInjection == dEdtdV_DM_ann_call

SpecInjection == InitInjection /\ [][NextInjection]_vars

\* what multiplies (1+z)^n and the critical density in a term of the rate
injection_coefficient(term) ==
  IF term = "smooth"
  THEN Mul(sim.params.pann, pann_variation(sim.zp1, sim.params))
  ELSE sim.params.pann_halo

\* the term of the rate is the critical density times n factors (1+z)^3
\* times its coefficient (times the fit of erfc, for the haloes)
carries_cubes(t, n) ==
  t.factor = Mul(critical_density(sim.params),
                 Mul(Pow(1, 3 * n * sim.zp1.e), injection_coefficient(t.term)))

injection_returned == sim.routine = "dEdtdV_DM_ann" /\ sim.at = "returned"

\* the terms of the returned rate are those whose parameter is positive
injection_terms ==
  {sim.rate[i].term : i \in DOMAIN sim.rate}
    = {t \in {"smooth", "halo"} :
         Gt(IF t = "smooth" THEN sim.params.pann ELSE sim.params.pann_halo,
            Zero)}

\* C20, as stated: in the rate dEdtdV_DM_ann returns, the term of the smooth
\* background and the term of the haloes each carry the critical density
\* and exactly one factor (1+z)^3.
C20_OneCubeEach ==
  injection_returned =>
    \A i \in DOMAIN sim.rate : carries_cubes(sim.rate[i], 1)

\* C20, amended: both terms carry the critical density; the term of the
\* haloes carries one factor (1+z)^3, the term of the smooth background
\* two, (1+z)^6.
C20_SmoothCarriesTwoCubes ==
  injection_returned =>
    /\ injection_terms
    /\ \A i \in DOMAIN sim.rate :
         carries_cubes(sim.rate[i],
                       IF sim.rate[i].term = "smooth" THEN 2 ELSE 1)

\* C20, its case: a rate with both terms at a redshift above 0
C20_Witness ==
  /\ injection_returned
  /\ Len(sim.rate) = 2
  /\ Gt(sim.zp1, Pow(1, 0))
  /\ sim.params.ann_var # Zero
  /\ carries_cubes(sim.rate[1], 2)
  /\ carries_cubes(sim.rate[2], 1)

-----------------------------------------------------------------------------
\* The energy partition chi_heat, chi_ion, chi_exc of energy_injection.c, in
\* binary floating point.

\* x / 3.
float_third(x) == float_round(x, 3)

\* (1.+2.*xe)/3.
chi_heat(xe) == float_third(float_add(float_one, float_round(2 * xe, 1)))

\* (1.-xe)/3.
chi_ion(xe) == float_third(float_sub(float_one, xe))

chi_exc_as_chi_ion(xe) == chi_ion(xe)

\* 1. - chi_ion(xe) - chi_heat(xe)
chi_exc(xe) == float_sub(float_sub(float_one, chi_ion(xe)), chi_heat(xe))

\* a call of the three functions on one xe
PartitionCall(xe) ==
  [routine |-> "chi", xe |-> xe, at |-> "call", chi_heat |-> 0, chi_ion |-> 0,
   chi_exc |-> 0]

chi_call ==
  /\ sim.routine = "chi"
  /\ sim.at = "call"
  /\ sim' = [sim EXCEPT !.chi_heat = chi_heat(sim.xe),
                        !.chi_ion = chi_ion(sim.xe),
                        !.chi_exc = chi_exc(sim.xe), !.at = "returned"]
  /\ UNCHANGED <<module_vars, ppm>>

-----------------------------------------------------------------------------
\* dEdtdV_pbh, dEdtdV_inj and update_dEdtdV_dep of energy_injection.c, on the
\* grid of dEdtdV_DM_ann.  The averaged luminosity L_pbh_av is kept as a
\* symbol with its arguments; a rate is the list of its DM terms and the
\* list of its PBH terms, 0. being the two empty lists.

\* 7.07e-52, to the nearest power of b
PbhPrefactor == Pow(1, -409)

\* params with the fields of the PBH channel and of the deposition
InjParamsPbh(pann, fpbh, Mpbh, on_the_spot) ==
  [pann |-> pann, pann_halo |-> Zero, ann_var |-> Zero,
   ann_z |-> Pow(1, 2), ann_zmax |-> Pow(1, 3), ann_zmin |-> Pow(1, 1),
   ann_z_halo |-> Pow(1, 2), odmh2 |-> Pow(1, -7),
   fpbh |-> fpbh, Mpbh |-> Mpbh, coll_ion |-> 0, on_the_spot |-> on_the_spot]

\* (xe < 1.? xe : 1.)
xe_used_of(xe) == IF Lt(xe, Lin(1)) THEN xe ELSE Lin(1)

dEdtdV_pbh_always(fpbh, Mpbh, zp1, xe, Tgas, coll_ion) ==
  <<[factor |-> Mul(Mul(Div(PbhPrefactor, Mpbh), cube(zp1)), fpbh),
     L_pbh_av_of |-> <<Mpbh, zp1, xe_used_of(xe), Tgas, coll_ion>>]>>

\* the PBH terms of the rate: one term, the prefactor times the luminosity
\* L_pbh_av evaluated on the arguments listed, or none (0.)
dEdtdV_pbh(fpbh, Mpbh, zp1, xe, Tgas, coll_ion) ==
  IF Gt(fpbh, Zero)
  THEN <<[factor |-> Mul(Mul(Div(PbhPrefactor, Mpbh), cube(zp1)), fpbh),
          L_pbh_av_of |-> <<Mpbh, zp1, xe_used_of(xe), Tgas, coll_ion>>]>>
  ELSE <<>>

dEdtdV_inj(zp1, xe, Tgas, params) ==
  [dm |-> dEdtdV_DM_ann(zp1, params),
   pbh |-> dEdtdV_pbh(params.fpbh, params.Mpbh, zp1, xe, Tgas,
                      params.coll_ion)]

\* the value 0. of a rate
NoRate == [dm |-> <<>>, pbh |-> <<>>]

on_the_spot_inverted(params) == params.on_the_spot = 0

\* params->on_the_spot == 1
on_the_spot(params) == params.on_the_spot = 1

\* the accumulator after the update: the injection rate it was computed
\* from and, when it came out of the relaxation formula, the dlna, nH and H
\* of that step and the rate it relaxed from
update_dEdtdV_dep(z_out, dlna, xe, Tgas, nH, H, params, dEdtdV_dep) ==
  LET inj == dEdtdV_inj(z_out, xe, Tgas, params) IN
    IF on_the_spot(params)
    THEN [inj |-> inj, relaxed |-> <<>>]
    ELSE [inj |-> inj,
          relaxed |-> <<[dlna |-> dlna, nH |-> nH, H |-> H,
                         from |-> dEdtdV_dep.inj]>>]

PbhCall(fpbh, Mpbh, zp1, xe) ==
  [routine |-> "dEdtdV_pbh", fpbh |-> fpbh, Mpbh |-> Mpbh, zp1 |-> zp1,
   xe |-> xe, Tgas |-> Pow(1, 4), coll_ion |-> 0, at |-> "call",
   rate |-> <<>>]

DepositionCall(zp1, dlna, xe, nH, H, params, dEdtdV_dep) ==
  [routine |-> "update_dEdtdV_dep", z_out |-> zp1, dlna |-> dlna, xe |-> xe,
   Tgas |-> Pow(1, 4), nH |-> nH, H |-> H, params |-> params,
   dEdtdV_dep |-> dEdtdV_dep, was |-> dEdtdV_dep, at |-> "call"]

dEdtdV_pbh_call ==
  /\ sim.routine = "dEdtdV_pbh"
  /\ sim.at = "call"
  /\ sim' = [sim EXCEPT !.rate = dEdtdV_pbh(sim.fpbh, sim.Mpbh, sim.zp1,
                                            sim.xe, sim.Tgas, sim.coll_ion),
                        !.at = "returned"]
  /\ UNCHANGED <<module_vars, ppm>>

update_dEdtdV_dep_call ==
  /\ sim.routine = "update_dEdtdV_dep"
  /\ sim.at = "call"
  /\ sim' = [sim EXCEPT !.dEdtdV_dep =
                          update_dEdtdV_dep(sim.z_out, sim.dlna, sim.xe,
                                            sim.Tgas, sim.nH, sim.H,
                                            sim.params, sim.dEdtdV_dep),
                        !.at = "returned"]
  /\ UNCHANGED <<module_vars, ppm>>

\* the values of fpbh: off, on, and below zero
PbhFractions == {Zero, Pow(1, -1), Pow(-1, -1)}

PbhMasses == {Zero, Pow(1, 2), Pow(1, 5)}

IonizedFractions == {Pow(1, -2), Pow(1, 0), Pow(1, 1)}

\* accumulators left by earlier steps
PriorDepositions ==
  {[inj |-> NoRate, relaxed |-> <<>>],
   [inj |-> dEdtdV_inj(Pow(1, 2), Pow(1, 0), Pow(1, 4),
                       InjParamsPbh(Pow(1, -2), Zero, Zero, 1)),
    relaxed |-> <<>>]}

InitEnergy ==
  /\ SimulatorModule
  /\ ppr = Ppr(K_PER_DECADE_PRIMORDIAL_MIN)
  /\ ppm = PpmInflation("inflation_V", "polynomial")
  /\ sim \in {PartitionCall(xe) : xe \in UnitFloats}
       \cup {PbhCall(fpbh, Mpbh, Pow(1, z), xe) :
               fpbh \in PbhFractions, Mpbh \in PbhMasses, z \in 0 .. MaxZp1,
               xe \in IonizedFractions}
       \cup {DepositionCall(Pow(1, z), dlna, xe, Pow(1, -3), H, params, dep) :
               z \in {1, MaxZp1}, dlna \in {Pow(1, -4), Pow(-1, -4)},
               xe \in IonizedFractions, H \in {Pow(1, -20), Zero},
               params \in {InjParamsPbh(pann, fpbh, Pow(1, 2), spot) :
                             pann \in {Zero, Pow(1, -2)},
                             fpbh \in PbhFractions, spot \in {0, 1, 2}},
               dep \in PriorDepositions}

NextEnergy ==
  \/ chi_call
  \/ dEdtdV_pbh_call
  \/ update_dEdtdV_dep_call

SpecEnergy == InitEnergy /\ [][NextEnergy]_vars

\* C21: for every xe in [0,1] the three fractions chi_heat(xe), chi_ion(xe)
\* and chi_exc(xe), added in this order in floating point, give exactly 1.
C21_PartitionSumsToOne ==
  (sim.routine = "chi" /\ sim.at = "returned") =>
    float_add(float_add(sim.chi_heat, sim.chi_ion), sim.chi_exc) = float_one

\* C21, its case: an xe inside (0,1) for which the thirds are rounded
C21_Witness ==
  /\ sim.routine = "chi"
  /\ sim.at = "returned"
  /\ sim.xe > 0 /\ sim.xe < float_one
  /\ 3 * sim.chi_ion # float_one - sim.xe
  /\ sim.chi_exc # sim.chi_ion
  /\ float_add(float_add(sim.chi_heat, sim.chi_ion), sim.chi_exc) = float_one

\* the fields of a call of update_dEdtdV_dep other than the accumulator
deposition_arguments(s) ==
  <<s.z_out, s.dlna, s.xe, s.Tgas, s.nH, s.H, s.params, s.was>>

\* C22: with on_the_spot = 1, update_dEdtdV_dep leaves in the accumulator
\* exactly dEdtdV_inj(z_out, xe, Tgas, params), whatever the accumulator
\* held before and whatever dlna, nH and H are, and changes nothing else.
C22_OnTheSpot ==
  [][(sim.routine = "update_dEdtdV_dep" /\ sim.at = "call"
      /\ sim.params.on_the_spot = 1)
     => /\ sim'.dEdtdV_dep =
             [inj |-> dEdtdV_inj(sim.z_out, sim.xe, sim.Tgas, sim.params),
              relaxed |-> <<>>]
        /\ deposition_arguments(sim') = deposition_arguments(sim)
        /\ sim'.at = "returned"]_vars

\* C22, its case: an on-the-spot update over an accumulator that held
\* another rate, with H = 0 and a negative dlna
C22_Witness ==
  /\ sim.routine = "update_dEdtdV_dep"
  /\ sim.at = "returned"
  /\ sim.params.on_the_spot = 1
  /\ sim.was.inj # NoRate
  /\ sim.H = Zero
  /\ Lt(sim.dlna, Zero)
  /\ sim.dEdtdV_dep.inj # sim.was.inj
  /\ sim.dEdtdV_dep.inj # NoRate

\* C23: dEdtdV_pbh returns 0. whenever fpbh <= 0, for any Mpbh, z and xe, and
\* no luminosity is evaluated for it.
C23_PbhDisabled ==
  (sim.routine = "dEdtdV_pbh" /\ sim.at = "returned" /\ Le(sim.fpbh, Zero))
  => sim.rate = <<>>

\* C23, its case: the channel disabled with a negative fpbh and Mpbh = 0
C23_Witness ==
  /\ sim.routine = "dEdtdV_pbh"
  /\ sim.at = "returned"
  /\ Lt(sim.fpbh, Zero)
  /\ sim.Mpbh = Zero
  /\ sim.rate = <<>>

-----------------------------------------------------------------------------
\* primordial_get_lnk_list on doubles.  The wavenumbers are powers of two, so
\* that their quotient is exact and log() of them is the double nearest to a
\* multiple of ln 2; ln 2 and ln 10 are taken to four decimals before they
\* are rounded to a double.

Ln2Myriadths == 6931

Ln10Myriadths == 23026

Myriad == 10000

\* j for the double 2^j
RECURSIVE binary_exponent(_)
binary_exponent(x) ==
  IF x = float_one THEN 0
  ELSE IF x > float_one THEN binary_exponent(x \div 2) + 1
  ELSE binary_exponent(2 * x) - 1

\* log(x), x a power of two
float_log(x) ==
  float_round(binary_exponent(x) * Ln2Myriadths * float_one, Myriad)

\* log(10.)
float_log_10 == float_round(Ln10Myriadths * float_one, Myriad)

float_mul(x, y) == float_round(x * y, float_one)

\* (int)x
int_cast(x) == Sgn(x) * (Abs(x) \div float_one)

\* (int)(log(kmax/kmin)/log(10.)*k_per_decade) + 2
lnk_size_double(kmin, kmax, k_per_decade) ==
  int_cast(float_mul(float_div(float_log(float_div(kmax, kmin)), float_log_10),
                     k_per_decade)) + 2

\* log(kmin)+i*log(10.)/k_per_decade
lnk_entry_double(kmin, k_per_decade, i) ==
  float_add(float_log(kmin),
            float_div(float_round(i * float_log_10, 1), k_per_decade))

\* primordial_get_lnk_list as it acts on the call s
get_lnk_list_double(s) ==
  IF s.kmin <= 0 \/ s.kmax <= s.kmin
  THEN returned(s, _FAILURE_, "inconsistent values of kmin, kmax")
  ELSE LET size == lnk_size_double(s.kmin, s.kmax, s.k_per_decade)
           f == [s EXCEPT !.lnk_size = size,
                          !.lnk = [i \in 0 .. size - 1 |->
                                     lnk_entry_double(s.kmin, s.k_per_decade, i)],
                          !.allocated = TRUE]
       IN  returned(f, _SUCCESS_, "none")

LnkCall(kmin, kmax, k_per_decade) ==
  [routine |-> "get_lnk_list", kmin |-> kmin, kmax |-> kmax,
   k_per_decade |-> k_per_decade, lnk_size |-> 0, lnk |-> <<>>,
   allocated |-> FALSE, at |-> "call", status |-> "running", error |-> "none"]

primordial_get_lnk_list_call ==
  /\ sim.routine = "get_lnk_list"
  /\ sim.at = "call"
  /\ sim' = get_lnk_list_double(sim)
  /\ UNCHANGED <<module_vars, ppm>>

\* 2^j as a double
double_pow2(j) == IF j >= 0 THEN float_one * 2 ^ j ELSE float_one \div 2 ^ (-j)

KminDoubles == {0} \cup {double_pow2(j) : j \in -8 .. -7}

KmaxDoubles == {double_pow2(j) : j \in -8 .. 6}

KPerDecadeDoubles == {n * float_one : n \in {1, 3, 5, 10}}

InitLnkDouble ==
  /\ SimulatorModule
  /\ ppr = PprAttractor(1)
  /\ ppm = PpmInflation("inflation_V", "polynomial")
  /\ sim \in {LnkCall(kmin, kmax, k_per_decade) :
                kmin \in KminDoubles, kmax \in KmaxDoubles,
                k_per_decade \in KPerDecadeDoubles}

NextLnkDouble == primordial_get_lnk_list_call

SpecLnkDouble == InitLnkDouble /\ [][NextLnkDouble]_vars

\* C29: for kmin > 0, kmax > kmin and k_per_decade > 0,
\* primordial_get_lnk_list gives lnk_size >= 2, lnk[0] = ln(kmin),
\* lnk[lnk_size-1] >= ln(kmax) and entries ln(10)/k_per_decade apart; for
\* kmin <= 0 or kmax <= kmin it returns an error and allocates nothing.
C29_LnkListCoversRange ==
  (sim.routine = "get_lnk_list" /\ sim.at = "returned") =>
    IF sim.kmin > 0 /\ sim.kmax > sim.kmin
    THEN /\ sim.status = _SUCCESS_
         /\ sim.lnk_size >= 2
         /\ sim.lnk[0] = float_log(sim.kmin)
         /\ sim.lnk[sim.lnk_size - 1] >= float_log(sim.kmax)
         /\ \A i \in 0 .. sim.lnk_size - 1 :
              sim.lnk[i] = float_add(sim.lnk[0],
                                     float_div(float_round(i * float_log_10, 1),
                                               sim.k_per_decade))
    ELSE /\ sim.status = _FAILURE_
         /\ ~sim.allocated

====
